---------------------------- MODULE Spec2Model ----------------------------
(***************************************************************************)
(* Model of the Juan Lab DokuWiki scraper                                  *)
(*   src/juanlab-astro/scripts/scrape_juanlab.py   (the current scraper)   *)
(*   src/scripts/scrape_juanlab.py                 (the older copy)        *)
(*   src/juanlab-astro/scripts/download_images.py  (the image downloader)  *)
(*                                                                         *)
(* A Python str is a sequence of code points; each code point is a         *)
(* one-character TLA+ string, a non-ASCII code point is written by its     *)
(* name "Uxxxx".  Python's None is the empty tuple <<>> and a present      *)
(* optional value v is <<v>>, so that an absent value and a present empty  *)
(* string differ.  A parsed document is [root, elements]: whether it holds *)
(* the content root, and the elements of the page in document order, each  *)
(* [name, text, img, hrefs, alt]: tag name, get_text(), the src of the     *)
(* first img at or below the element (of the element itself for an img),   *)
(* the href of each a at or below it (None for an a without href), and     *)
(* the alt text of an img.                                                 *)
(***************************************************************************)
EXTENDS Integers, Sequences, FiniteSets, TLC

None == <<>>
Some(v) == <<v>>

\* F(v), with v evaluated once: a local variable of the code that is assigned
\* once and read several times
With(v, F(_)) == CHOOSE r \in { F(x) : x \in {v} } : TRUE

(***************************************************************************)
(* Characters.                                                             *)
(***************************************************************************)
Digits == <<"0", "1", "2", "3", "4", "5", "6", "7", "8", "9">>

IsDigit(c) == \E i \in 1..10 : Digits[i] = c

DigitVal(c) == (CHOOSE i \in 1..10 : Digits[i] = c) - 1

UpperChars ==
  <<"A","B","C","D","E","F","G","H","I","J","K","L","M",
    "N","O","P","Q","R","S","T","U","V","W","X","Y","Z">>

LowerChars ==
  <<"a","b","c","d","e","f","g","h","i","j","k","l","m",
    "n","o","p","q","r","s","t","u","v","w","x","y","z">>

IsUpper(c) == \E i \in 1..26 : UpperChars[i] = c

IsLower(c) == \E i \in 1..26 : LowerChars[i] = c

\* The code points of the CJK Unified Ideographs block (U+4E00..U+9FFF) that
\* the inputs and the keyword tables use.
CJKChars ==
  { "U738B", "U5C0F", "U660E", "U674E", "U5927", "U83EF",
    "U535A", "U58EB", "U5F8C", "U78A9", "U5C08", "U5B78", "U90E8",
    "U8A2A", "U554F", "U7562", "U696D",
    "U734E", "U69AE", "U7372", "U5F97", "U767C", "U8868", "U5FB5", "U8058",
    "U751F", "U91AB", "U6578", "U64DA", "U7814", "U7A76", "U8A08", "U756B",
    "U6B77", "U7D93", "U8B7D", "U6703", "U962E", "U96EA", "U82AC" }

\* re.search(r'[\u4e00-\u9fff]', c) on one code point
IsCJK(c) == c \in CJKChars

\* \s : the ASCII white space and U+3000 IDEOGRAPHIC SPACE
IsSpace(c) == c \in {" ", "\t", "\n", "U3000"}

\* \w : letters, digits, underscore and ideographs
IsWord(c) == IsDigit(c) \/ IsUpper(c) \/ IsLower(c) \/ c = "_" \/ IsCJK(c)

\* str.lower() on one code point
LowerChar(c) ==
  IF IsUpper(c) THEN LowerChars[CHOOSE i \in 1..26 : UpperChars[i] = c] ELSE c

\* unicodedata.normalize("NFKC", c) on one code point: the full-width forms
\* and the ideographic space fold to their ASCII counterparts.
NFKCChar(c) ==
  CASE c = "UFF08" -> "("
    [] c = "UFF09" -> ")"
    [] c = "UFF0C" -> ","
    [] c = "UFF12" -> "2"
    [] c = "U3000" -> " "
    [] OTHER -> c

(***************************************************************************)
(* Strings.                                                                *)
(***************************************************************************)
MapStr(F(_), s) == [i \in 1..Len(s) |-> F(s[i])]

lower(s) == MapStr(LowerChar, s)

\* s[i:] with a 1-based i
From(s, i) == SubSeq(s, i, Len(s))

startswith(s, p) == Len(s) >= Len(p) /\ SubSeq(s, 1, Len(p)) = p

endswith(s, p) == Len(s) >= Len(p) /\ SubSeq(s, Len(s) - Len(p) + 1, Len(s)) = p

\* the 1-based index of the first occurrence of sub in s, 0 when there is none
Find(s, sub) ==
  LET hits == { i \in 1..(Len(s) - Len(sub) + 1) : SubSeq(s, i, i + Len(sub) - 1) = sub }
  IN  IF hits = {} THEN 0 ELSE CHOOSE i \in hits : \A j \in hits : i <= j

\* sub in s
Contains(s, sub) == Find(s, sub) > 0

\* any(kw in s for kw in kws)
ContainsAny(s, kws) == \E k \in 1..Len(kws) : Contains(s, kws[k])

\* re.search(r'[\u4e00-\u9fff]', s)
HasCJK(s) == \E i \in 1..Len(s) : IsCJK(s[i])

\* the number of leading code points of s that satisfy P
RECURSIVE LeadingCount(_, _)
LeadingCount(P(_), s) ==
  IF s = <<>> \/ ~P(s[1]) THEN 0 ELSE 1 + LeadingCount(P, Tail(s))

RECURSIVE TrailingCount(_, _)
TrailingCount(P(_), s) ==
  IF s = <<>> \/ ~P(s[Len(s)]) THEN 0
  ELSE 1 + TrailingCount(P, SubSeq(s, 1, Len(s) - 1))

\* s.strip(chars) for the predicate P
StripBy(P(_), s) ==
  LET a == LeadingCount(P, s)
      b == TrailingCount(P, s)
  IN  IF a = Len(s) THEN <<>> ELSE SubSeq(s, a + 1, Len(s) - b)

\* s.strip()
strip(s) == StripBy(IsSpace, s)

\* re.sub(r'\s+', ' ', s)
CollapseSpace(s) ==
  LET Kept(i) == ~IsSpace(s[i]) \/ i = 1 \/ ~IsSpace(s[i - 1])
      kept == SelectSeq([i \in 1..Len(s) |-> i], Kept)
  IN  [k \in 1..Len(kept) |-> IF IsSpace(s[kept[k]]) THEN " " ELSE s[kept[k]]]

\* s.split(sep) for a one-character separator: the pieces, empty ones included
RECURSIVE SplitOn(_, _)
SplitOn(s, sep) ==
  LET i == Find(s, <<sep>>)
  IN  IF i = 0 THEN <<s>>
      ELSE <<SubSeq(s, 1, i - 1)>> \o SplitOn(From(s, i + 1), sep)

\* s.split(): the maximal runs of non-space code points
RECURSIVE SplitWords(_)
SplitWords(s) ==
  LET t == From(s, LeadingCount(IsSpace, s) + 1)
      NotSpace(c) == ~IsSpace(c)
      n == LeadingCount(NotSpace, t)
  IN  IF t = <<>> THEN <<>>
      ELSE <<SubSeq(t, 1, n)>> \o SplitWords(From(t, n + 1))

\* [x for x in seq if P(x)]
RECURSIVE Filter(_, _)
Filter(P(_), seq) ==
  IF seq = <<>> THEN <<>>
  ELSE (IF P(seq[1]) THEN <<seq[1]>> ELSE <<>>) \o Filter(P, Tail(seq))

\* int(s) for a string of decimal digits
RECURSIVE int(_)
int(s) ==
  IF s = <<>> THEN 0 ELSE 10 * int(SubSeq(s, 1, Len(s) - 1)) + DigitVal(s[Len(s)])

\* str(n) for n >= 0
RECURSIVE str(_)
str(n) ==
  IF n < 10 THEN <<Digits[n + 1]>> ELSE str(n \div 10) \o <<Digits[(n % 10) + 1]>>

\* s.zfill(2)
zfill2(s) ==
  IF Len(s) >= 2 THEN s ELSE IF Len(s) = 1 THEN <<"0">> \o s ELSE <<"0", "0">>

\* clean_text: NFKC, white-space runs to one space, strip
clean_text(text) ==
  IF text = <<>> THEN <<>>
  ELSE With(MapStr(NFKCChar, text),
         LAMBDA normalized : With(CollapseSpace(normalized), LAMBDA collapsed : strip(collapsed)))

(***************************************************************************)
(* Configuration and URLs.                                                 *)
(***************************************************************************)
BASE_URL == <<"h","t","t","p","s",":","/","/","s","b","l",".","c","s","i","e",".","o","r","g","/","J","u","a","n","L","a","b">>

S_http == <<"h","t","t","p">>

\* the last 1-based index of c in s, 0 when there is none
LastIndex(s, c) ==
  LET hits == { i \in 1..Len(s) : s[i] = c }
  IN  IF hits = {} THEN 0 ELSE CHOOSE i \in hits : \A j \in hits : j <= i

\* scheme://authority of an absolute URL
UrlOrigin(base) ==
  LET p == Find(base, <<":", "/", "/">>)
      q == Find(From(base, p + 3), <<"/">>)
  IN  IF q = 0 THEN base ELSE SubSeq(base, 1, p + 1 + q)

\* an absolute URL up to and including the last "/" of its path
UrlDir(base) ==
  LET o == UrlOrigin(base)
  IN  IF Len(base) = Len(o) THEN base \o <<"/">>
      ELSE SubSeq(base, 1, LastIndex(base, "/"))

\* a reference that starts with a scheme ("mailto:", "https:", ...)
HasScheme(url) ==
  LET c == Find(url, <<":">>)
      IsSchemeChar(x) == IsUpper(x) \/ IsLower(x) \/ IsDigit(x) \/ x \in {"+", ".", "-"}
  IN  /\ c > 1
      /\ IsUpper(url[1]) \/ IsLower(url[1])
      /\ \A i \in 1..(c - 1) : IsSchemeChar(url[i])

\* urllib.parse.urljoin(base, url) for a reference that is empty, absolute,
\* an absolute path ("/x/y") or a relative path without dot segments ("x/y")
urljoin(base, url) ==
  IF url = <<>> THEN base
  ELSE IF HasScheme(url) THEN url
  ELSE IF url[1] = "/" THEN UrlOrigin(base) \o url
  ELSE UrlDir(base) \o url

make_absolute_url(href) ==
  IF href = <<>> THEN <<>>
  ELSE IF startswith(href, S_http) THEN href
  ELSE urljoin(BASE_URL \o <<"/">>, href)

\* a lookup that falls back on the whole document
find_content_or_document(soup) == Some(soup.elements)

\* The document's content root: soup.find("div", class_="dokuwiki") or
\* soup.find("div", id="dokuwiki__content"); None when the document has neither.
find_content(soup) == IF soup.root THEN Some(soup.elements) ELSE None

\* content.find_all(names): the elements with one of the tag names, in
\* document order
find_all(elements, names) ==
  LET Wanted(e) == e.name \in names IN Filter(Wanted, elements)

\* element.find("a") and its href: the first a at or below the element
FirstHref(e) == IF e.hrefs = <<>> THEN None ELSE e.hrefs[1]

(***************************************************************************)
(* Century inference: 2000 + year if year < 50 else 1900 + year            *)
(***************************************************************************)
\* the inference with its threshold at 60
century_threshold_60(year) == IF year < 60 THEN 2000 + year ELSE 1900 + year

\* lines 166-167 and 434-435, and line 419 of src/scripts
century(year) == IF year < 50 THEN 2000 + year ELSE 1900 + year

(***************************************************************************)
(* extract_news                                                            *)
(***************************************************************************)
\* news_pattern = ^(\d{2})\.(\d{2})\s+(.+)$ : None, or the three groups
news_pattern(text) ==
  LET k    == LeadingCount(IsSpace, From(text, 6))
      rest == From(text, 6 + k)
      title == IF rest # <<>> THEN rest ELSE SubSeq(text, Len(text), Len(text))
  IN  IF /\ Len(text) >= 7
         /\ IsDigit(text[1]) /\ IsDigit(text[2]) /\ text[3] = "."
         /\ IsDigit(text[4]) /\ IsDigit(text[5])
         /\ k >= 1
         /\ rest # <<>> \/ k >= 2
         /\ ~Contains(title, <<"\n">>)
      THEN Some(<<SubSeq(text, 1, 2), SubSeq(text, 4, 5), title>>)
      ELSE None

KW_award       == <<<<"U734E">>, <<"a","w","a","r","d">>, <<"U69AE","U7372">>, <<"U5F97","U734E">>>>
KW_publication == <<<<"U767C","U8868">>, <<"p","a","p","e","r">>, <<"p","u","b","l","i","s","h">>, <<"j","o","u","r","n","a","l">>>>
KW_recruitment == <<<<"U5FB5">>, <<"r","e","c","r","u","i","t">>, <<"U8058">>>>

S_general     == <<"g","e","n","e","r","a","l">>
S_award       == <<"a","w","a","r","d">>
S_publication == <<"p","u","b","l","i","c","a","t","i","o","n">>
S_recruitment == <<"r","e","c","r","u","i","t","m","e","n","t">>

news_category(title) ==
  LET title_lower == lower(title)
  IN  IF ContainsAny(title_lower, KW_award) THEN S_award
      ELSE IF ContainsAny(title_lower, KW_publication) THEN S_publication
      ELSE IF ContainsAny(title_lower, KW_recruitment) THEN S_recruitment
      ELSE S_general

\* the body of the loop over the list items: the item parsed from li, or None
news_item(li) ==
  With(news_pattern(clean_text(li.text)), LAMBDA match :
      IF match = None THEN None
      ELSE LET year_short == match[1][1]
               month      == match[1][2]
               title      == match[1][3]
               year       == century(int(year_short))
               href       == FirstHref(li)
               link       == IF href # None /\ href[1] # <<>>
                             THEN Some(make_absolute_url(href[1])) ELSE None
           IN  Some([ date     |-> str(year) \o <<"-">> \o zfill2(month),
                      year     |-> year,
                      month    |-> int(month),
                      title    |-> title,
                      link     |-> link,
                      category |-> news_category(title) ]))

\* x sorts before y under key=(year, month), reverse=True
NewsBefore(x, y) ==
  x.year > y.year \/ (x.year = y.year /\ x.month > y.month)

\* one insertion of a stable sort: x goes behind every item that does not
\* sort after it
RECURSIVE InsertNews(_, _)
InsertNews(sorted, x) ==
  IF sorted = <<>> THEN <<x>>
  ELSE IF NewsBefore(x, sorted[1]) THEN <<x>> \o sorted
  ELSE <<sorted[1]>> \o InsertNews(Tail(sorted), x)

RECURSIVE SortNewsFrom(_, _)
SortNewsFrom(sorted, items) ==
  IF items = <<>> THEN sorted
  ELSE With(InsertNews(sorted, items[1]), LAMBDA longer : SortNewsFrom(longer, Tail(items)))

\* sorted(news_items, key=...)[::-1]: sorted in ascending order and then
\* reversed, which also reverses the items of equal year and month
news_sort_ascending_reversed(items) ==
  SortNewsFrom(<<>>, [i \in 1..Len(items) |-> items[Len(items) + 1 - i]])

\* the items in source order, as they are before line 195
news_unsorted(items) == items

\* news_items.sort(key=lambda x: (x["year"], x["month"]), reverse=True)
news_sort(items) == SortNewsFrom(<<>>, items)

RECURSIVE news_loop(_, _)
news_loop(items, lis) ==
  IF lis = <<>> THEN items
  ELSE With(items \o news_item(lis[1]), LAMBDA longer : news_loop(longer, Tail(lis)))

extract_news(soup) ==
  LET content == find_content(soup)
  IN  IF content = None THEN <<>>
      ELSE news_sort(news_loop(<<>>, find_all(content[1], {"li"})))

(***************************************************************************)
(* extract_people                                                          *)
(***************************************************************************)
\* category_keywords, in the dict's insertion order
category_keywords ==
  << <<<<"p","h","d">>, "phd_students">>,
     <<<<"p","h",".","d">>, "phd_students">>,
     <<<<"U535A","U58EB">>, "phd_students">>,
     <<<<"d","o","c","t","o","r","a","l">>, "phd_students">>,
     <<<<"m","a","s","t","e","r">>, "masters_students">>,
     <<<<"U78A9","U58EB">>, "masters_students">>,
     <<<<"m","s"," ","s","t","u","d","e","n","t">>, "masters_students">>,
     <<<<"u","n","d","e","r","g","r","a","d">>, "undergrads">>,
     <<<<"U5927","U5C08">>, "undergrads">>,
     <<<<"U5927","U5B78","U90E8">>, "undergrads">>,
     <<<<"v","i","s","i","t","i","n","g">>, "visiting">>,
     <<<<"e","x","c","h","a","n","g","e">>, "visiting">>,
     <<<<"U8A2A","U554F">>, "visiting">>,
     <<<<"a","l","u","m","n","i">>, "alumni">>,
     <<<<"U7562","U696D">>, "alumni">>,
     <<<<"f","o","r","m","e","r">>, "alumni">>,
     <<<<"p","o","s","t","d","o","c">>, "postdocs">>,
     <<<<"U535A","U58EB","U5F8C">>, "postdocs">> >>

S_alumni == <<"a","l","u","m","n","i">>
S_mailto == <<"m","a","i","l","t","o",":">>

HeaderNames4 == {"h1", "h2", "h3", "h4"}

\* the five categories of the docstring of extract_people
EmptyPeople_docstring ==
  [ phd_students     |-> <<>>,
    masters_students |-> <<>>,
    undergrads       |-> <<>>,
    visiting         |-> <<>>,
    alumni           |-> <<>> ]

\* the roster with which extract_people starts
EmptyPeople ==
  [ phd_students     |-> <<>>,
    masters_students |-> <<>>,
    undergrads       |-> <<>>,
    visiting         |-> <<>>,
    alumni           |-> <<>>,
    postdocs         |-> <<>> ]

\* the local state of extract_people before the loop
PeopleStart ==
  [ people |-> EmptyPeople, current_category |-> None, is_alumni_section |-> FALSE ]

\* for keyword, category in category_keywords.items(): if keyword in text_lower:
\* the index of the first such keyword, 0 when there is none
FirstKeyword(table, text_lower) ==
  LET hits == { k \in 1..Len(table) : Contains(text_lower, table[k][1]) }
  IN  IF hits = {} THEN 0 ELSE CHOOSE k \in hits : \A j \in hits : k <= j

\* the category as line 402 takes it outside the alumni section
people_category_as_matched(is_alumni_section, category) == category

\* lines 395-402: the category a matched keyword selects
people_category(is_alumni_section, category) ==
  IF is_alumni_section
  THEN IF category \in {"phd_students", "masters_students", "undergrads", "postdocs"}
       THEN "alumni" ELSE category
  ELSE category

\* the header branch in which a header of another category ends the alumni
\* section
people_header_clears_flag(st, text_lower) ==
  IF Contains(text_lower, S_alumni)
  THEN [st EXCEPT !.is_alumni_section = TRUE, !.current_category = Some("alumni")]
  ELSE With(FirstKeyword(category_keywords, text_lower), LAMBDA k :
         IF k = 0 THEN st
         ELSE [st EXCEPT !.is_alumni_section = FALSE,
                         !.current_category = Some(category_keywords[k][2])])

\* lines 380-403: a header element
people_header(st, text_lower) ==
  IF Contains(text_lower, S_alumni)
  THEN [st EXCEPT !.is_alumni_section = TRUE, !.current_category = Some("alumni")]
  ELSE With(FirstKeyword(category_keywords, text_lower), LAMBDA k :
         IF k = 0 THEN st
         ELSE [st EXCEPT !.current_category =
                 Some(people_category(st.is_alumni_section, category_keywords[k][2]))])

\* member_pattern = ^([^\(]+?)\s*\(([^)]+)\)(.*)$ : None, or the three groups
member_pattern(text) ==
  LET i == Find(text, <<"(">>)
      j == Find(From(text, i + 1), <<")">>)
      before == SubSeq(text, 1, i - 1)
      t == TrailingCount(IsSpace, before)
  IN  IF i >= 2 /\ j >= 2 /\ ~Contains(text, <<"\n">>)
      THEN Some(<< SubSeq(before, 1, IF t = Len(before) THEN 1 ELSE Len(before) - t),
                   SubSeq(text, i + 1, i + j - 1),
                   From(text, i + j + 1) >>)
      ELSE None

\* re.search(r'(\d{2})', s): the index of the first two adjacent digits, or 0
FirstTwoDigits(s) ==
  LET hits == { i \in 1..(Len(s) - 1) : IsDigit(s[i]) /\ IsDigit(s[i + 1]) }
  IN  IF hits = {} THEN 0 ELSE CHOOSE i \in hits : \A j \in hits : i <= j

\* s.replace(old, "", 1)
RemoveFirst(s, old) ==
  LET i == Find(s, old)
  IN  IF i = 0 THEN s ELSE SubSeq(s, 1, i - 1) \o From(s, i + Len(old))

\* s.replace(old, "")
RECURSIVE RemoveAll(_, _)
RemoveAll(s, old) ==
  LET i == Find(s, old)
  IN  IF i = 0 THEN s ELSE SubSeq(s, 1, i - 1) \o RemoveAll(From(s, i + Len(old)), old)

IsDeptSeparator(c) == c \in {" ", "-", ";", ","}

\* line 440 without its strip
dept_keep_separator(info_part, y_str) == RemoveFirst(info_part, y_str)

\* line 440: info_part.replace(y_str, "", 1).strip(" -;,")
dept_of(info_part, y_str) == StripBy(IsDeptSeparator, RemoveFirst(info_part, y_str))

\* lines 445-453: the tokens of the name, ideographic ones to name_zh (the last
\* one wins), the others joined to name_en
RECURSIVE split_name(_, _, _)
split_name(name_parts, name_zh, name_en) ==
  IF name_parts = <<>> THEN <<name_zh, name_en>>
  ELSE LET part == name_parts[1]
       IN  IF HasCJK(part)
           THEN split_name(Tail(name_parts), part, name_en)
           ELSE split_name(Tail(name_parts), name_zh, strip(name_en \o <<" ">> \o part))

\* [r.strip() for r in rest.split(",") if r.strip()]
research_areas(rest) ==
  LET NonEmpty(r) == r # <<>>
      pieces == SplitOn(rest, ",")
  IN  Filter(NonEmpty, [k \in 1..Len(pieces) |-> strip(pieces[k])])

\* element.find("img") and make_absolute_url(img.get("src", ""))
photo_of(element) ==
  IF element.img = None THEN None ELSE Some(make_absolute_url(element.img[1]))

\* element.find("a", href=re.compile(r'^mailto:')) and its href without "mailto:"
email_of(element) ==
  LET IsMailto(h) == h # None /\ startswith(h[1], S_mailto)
      links == Filter(IsMailto, element.hrefs)
  IN  IF links = <<>> THEN None ELSE Some(RemoveAll(links[1][1], S_mailto))

\* lines 420-478: the member of a text that member_pattern matched
matched_member(element, groups) ==
  LET name_part == strip(groups[1])
      info_part == strip(groups[2])
      rest_part == strip(groups[3])
      y         == FirstTwoDigits(info_part)
      y_str     == SubSeq(info_part, y, y + 1)
      names     == split_name(SplitWords(name_part), <<>>, <<>>)
  IN  [ name_zh    |-> names[1],
        name_en    |-> names[2],
        year_start |-> IF y = 0 THEN 2024 ELSE century(int(y_str)),
        department |-> IF y = 0 THEN info_part ELSE dept_of(info_part, y_str),
        research   |-> research_areas(rest_part),
        photo      |-> photo_of(element),
        email      |-> email_of(element) ]

\* lines 505-518: the bare record of the fallback
bare_member(element, name) ==
  [ name_zh    |-> IF HasCJK(name) THEN name ELSE <<>>,
    name_en    |-> IF ~HasCJK(name) THEN name ELSE <<>>,
    year_start |-> 2024,
    department |-> <<>>,
    research   |-> <<>>,
    photo      |-> photo_of(element),
    email      |-> None ]

\* the fallback that accepts a text of up to 50 characters
people_member_upto_50(element, text) ==
  LET text_clean == strip(text)
  IN  With(member_pattern(text), LAMBDA match :
        IF match # None THEN Some(matched_member(element, match[1]))
        ELSE IF Len(text_clean) > 1 /\ Len(text_clean) <= 50
             THEN Some(bare_member(element, text_clean))
             ELSE None)

\* lines 419-522: the record a li, p or tr yields under a category, or None
people_member(element, text) ==
  LET text_clean == strip(text)
  IN  With(member_pattern(text), LAMBDA match :
        IF match # None THEN Some(matched_member(element, match[1]))
        ELSE IF Len(text_clean) > 1 /\ Len(text_clean) < 50
             THEN Some(bare_member(element, text_clean))
             ELSE None)

\* people[current_category].append(member)
people_append(people, category, member) ==
  [people EXCEPT ![category] = Append(@, member)]

\* lines 372-522: one iteration of the loop over
\* content.find_all(["h1", "h2", "h3", "h4", "li", "p", "tr"])
people_step(st, element) ==
  With(clean_text(element.text), LAMBDA text :
      IF text = <<>> THEN st
      ELSE IF element.name \in HeaderNames4 THEN people_header(st, lower(text))
      ELSE IF element.name \in {"li", "p", "tr"} /\ st.current_category # None
           THEN IF Len(text) < 2 THEN st
                ELSE With(people_member(element, text), LAMBDA member :
                       IF member = None THEN st
                       ELSE [st EXCEPT !.people =
                               people_append(@, st.current_category[1], member[1])])
           ELSE st)

RECURSIVE people_loop(_, _)
people_loop(st, elements) ==
  IF elements = <<>> THEN st
  ELSE With(people_step(st, elements[1]), LAMBDA next : people_loop(next, Tail(elements)))

\* extract_people(soup) of src/juanlab-astro
extract_people(soup) ==
  LET content == find_content(soup)
  IN  IF content = None THEN EmptyPeople
      ELSE people_loop(PeopleStart,
             find_all(content[1], HeaderNames4 \cup {"li", "p", "tr"})).people

(***************************************************************************)
(* extract_people of src/scripts, the older copy                           *)
(***************************************************************************)
\* member_pattern = ^([^\(]+?)\s*\((\d{2})-?\s*(\w*)\)\s*(.*)$ : None, or the
\* four groups
scripts_member_pattern(text) ==
  LET i == Find(text, <<"(">>)
      before == SubSeq(text, 1, i - 1)
      t == TrailingCount(IsSpace, before)
      a == From(text, i + 3)
      b == IF a # <<>> /\ a[1] = "-" THEN Tail(a) ELSE a
      c == From(b, LeadingCount(IsSpace, b) + 1)
      w == LeadingCount(IsWord, c)
      d == From(c, w + 1)
  IN  IF /\ i >= 2 /\ Len(text) >= i + 2
         /\ IsDigit(text[i + 1]) /\ IsDigit(text[i + 2])
         /\ d # <<>> /\ d[1] = ")"
         /\ ~Contains(text, <<"\n">>)
      THEN Some(<< SubSeq(before, 1, IF t = Len(before) THEN 1 ELSE Len(before) - t),
                   SubSeq(text, i + 1, i + 2),
                   SubSeq(c, 1, w),
                   From(d, 2 + LeadingCount(IsSpace, Tail(d))) >>)
      ELSE None

\* the member with year_start = 2000 + YY for every YY
scripts_member_always_2000(element, groups) ==
  LET names == split_name(SplitWords(strip(groups[1])), <<>>, <<>>)
  IN  [ name_zh    |-> names[1],
        name_en    |-> names[2],
        year_start |-> 2000 + int(groups[2]),
        department |-> groups[3],
        research   |-> IF groups[4] # <<>> THEN research_areas(groups[4]) ELSE <<>>,
        photo      |-> photo_of(element),
        email      |-> email_of(element) ]

\* lines 388-424 of src/scripts: the member of a matched text
scripts_member(element, groups) ==
  LET names == split_name(SplitWords(strip(groups[1])), <<>>, <<>>)
  IN  [ name_zh    |-> names[1],
        name_en    |-> names[2],
        year_start |-> century(int(groups[2])),
        department |-> groups[3],
        research   |-> IF groups[4] # <<>> THEN research_areas(groups[4]) ELSE <<>>,
        photo      |-> photo_of(element),
        email      |-> email_of(element) ]

\* lines 372-426 of src/scripts: one iteration of the loop over
\* content.find_all(["h1", "h2", "h3", "h4", "li", "p"])
scripts_people_step(st, element) ==
  With(clean_text(element.text), LAMBDA text :
      IF element.name \in HeaderNames4
      THEN With(FirstKeyword(category_keywords, lower(text)), LAMBDA k :
             IF k = 0 THEN st
             ELSE [st EXCEPT !.current_category = Some(category_keywords[k][2])])
      ELSE IF element.name = "li" /\ st.current_category # None
           THEN With(scripts_member_pattern(text), LAMBDA match :
                  IF match = None THEN st
                  ELSE [st EXCEPT !.people =
                          people_append(@, st.current_category[1],
                                        scripts_member(element, match[1]))])
           ELSE st)

RECURSIVE scripts_people_loop(_, _)
scripts_people_loop(st, elements) ==
  IF elements = <<>> THEN st
  ELSE With(scripts_people_step(st, elements[1]), LAMBDA next : scripts_people_loop(next, Tail(elements)))

\* extract_people(soup) of src/scripts
scripts_extract_people(soup) ==
  LET content == find_content(soup)
  IN  IF content = None THEN EmptyPeople
      ELSE scripts_people_loop(PeopleStart,
             find_all(content[1], HeaderNames4 \cup {"li", "p"})).people

(***************************************************************************)
(* extract_research_highlights                                             *)
(***************************************************************************)
S_Research_Highlight == <<"R","e","s","e","a","r","c","h"," ","H","i","g","h","l","i","g","h","t">>
S_highlight == <<"h","i","g","h","l","i","g","h","t">>
S_research  == <<"r","e","s","e","a","r","c","h">>

\* the topic markers of line 228
highlight_markers == <<<<"A","T","P">>, <<"U751F","U91AB","U5927","U6578","U64DA">>, <<"E","c","t","o","p","i","c">>, <<"B","i","g"," ","D","a","t","a">>>>

HeaderNames3 == {"h1", "h2", "h3"}

IsSlugChar(c) == IsLower(c) \/ IsDigit(c)

\* re.sub(r'[^a-z0-9]+', '-', s)
RECURSIVE SlugRuns(_)
SlugRuns(s) ==
  LET NotSlug(c) == ~IsSlugChar(c)
  IN  IF s = <<>> THEN <<>>
      ELSE IF IsSlugChar(s[1]) THEN <<s[1]>> \o SlugRuns(Tail(s))
      ELSE <<"-">> \o SlugRuns(From(s, LeadingCount(NotSlug, s) + 1))

IsDash(c) == c = "-"

\* re.sub(r'[^a-z0-9]+', '-', text.lower()).strip('-')
slug(text) == StripBy(IsDash, SlugRuns(lower(text)))

\* lines 232-239: the highlight a qualifying header opens
new_highlight(text) ==
  [ id           |-> slug(text),
    title_zh     |-> IF HasCJK(text) THEN text ELSE <<>>,
    title_en     |-> IF ~HasCJK(text) THEN text ELSE <<>>,
    description  |-> <<>>,
    image        |-> None,
    publications |-> <<>> ]

\* the local state of extract_research_highlights before the loop
HighlightsStart == [ highlights |-> <<>>, current_highlight |-> None ]

\* line 228: the condition under which a header opens a highlight
highlight_opens(current_highlight, text) ==
  current_highlight = None /\ ContainsAny(text, highlight_markers)

\* lines 223-239: a header element
highlights_header(st, text) ==
  IF Contains(text, S_Research_Highlight) THEN st
  ELSE IF highlight_opens(st.current_highlight, text)
       THEN [ highlights |-> IF st.current_highlight # None
                             THEN Append(st.highlights, st.current_highlight[1])
                             ELSE st.highlights,
              current_highlight |-> Some(new_highlight(text)) ]
       ELSE st

\* lines 242-247: a link that holds an image
highlights_image(st, element) ==
  LET src == element.img[1]
  IN  IF /\ st.current_highlight # None
         /\ Contains(lower(src), S_highlight) \/ Contains(lower(src), S_research)
      THEN [st EXCEPT !.current_highlight =
              Some([st.current_highlight[1] EXCEPT !.image = Some(make_absolute_url(src))])]
      ELSE st

\* the filter with its bound at 50 characters inclusive
highlight_keeps_from_50(para_text) == para_text # <<>> /\ Len(para_text) >= 50

\* line 252: the paragraphs kept as description
highlight_keeps(para_text) == para_text # <<>> /\ Len(para_text) > 50

\* lines 250-253: a paragraph
highlights_paragraph(st, element) ==
  With(clean_text(element.text), LAMBDA para_text :
      IF st.current_highlight # None /\ highlight_keeps(para_text)
      THEN [st EXCEPT !.current_highlight =
              Some([st.current_highlight[1] EXCEPT !.description = Append(@, para_text)])]
      ELSE st)

\* lines 219-253: one iteration of the loop over
\* content.find_all(["h1", "h2", "h3", "p", "img", "a"])
highlights_step(st, element) ==
  With(IF element.name # "img" THEN clean_text(element.text) ELSE <<>>, LAMBDA text :
      IF element.name \in HeaderNames3 THEN highlights_header(st, text)
      ELSE IF element.name = "a" /\ element.img # None THEN highlights_image(st, element)
      ELSE IF element.name = "p" THEN highlights_paragraph(st, element)
      ELSE st)

\* lines 255-258: the highlight still open is appended, the list returned
highlights_flush(st) ==
  IF st.current_highlight # None
  THEN Append(st.highlights, st.current_highlight[1])
  ELSE st.highlights

RECURSIVE highlights_loop(_, _)
highlights_loop(st, elements) ==
  IF elements = <<>> THEN st
  ELSE With(highlights_step(st, elements[1]), LAMBDA next : highlights_loop(next, Tail(elements)))

extract_research_highlights(soup) ==
  LET content == find_content(soup)
  IN  IF content = None THEN <<>>
      ELSE highlights_flush(highlights_loop(HighlightsStart,
             find_all(content[1], HeaderNames3 \cup {"p", "img", "a"})))

(***************************************************************************)
(* extract_research_projects                                               *)
(***************************************************************************)
S_Research_Project == <<"R","e","s","e","a","r","c","h"," ","P","r","o","j","e","c","t">>
S_project_zh       == <<"U7814","U7A76","U8A08","U756B">>
S_project_dash     == <<"p","r","o","j","e","c","t","-">>

\* project_pattern = ^\*?\*?\s*(\d+)\.\s*(.+)$ : None, or the two groups
project_pattern(text) ==
  LET IsStar(c) == c = "*"
      stars == LeadingCount(IsStar, text)
      a     == From(text, (IF stars > 2 THEN 2 ELSE stars) + 1)
      b     == From(a, LeadingCount(IsSpace, a) + 1)
      n     == LeadingCount(IsDigit, b)
      c     == From(b, n + 1)
      k     == LeadingCount(IsSpace, Tail(c))
      rest  == From(c, 2 + k)
      title == IF rest # <<>> THEN rest ELSE SubSeq(c, Len(c), Len(c))
  IN  IF /\ n >= 1
         /\ c # <<>> /\ c[1] = "."
         /\ rest # <<>> \/ k >= 1
         /\ ~Contains(title, <<"\n">>)
      THEN Some(<<SubSeq(b, 1, n), title>>)
      ELSE None

\* lines 297-304: the parts of a text of several lines, each classified alone
RECURSIVE project_parts(_, _, _)
project_parts(parts, title_zh, title_en) ==
  IF parts = <<>> THEN <<title_zh, title_en>>
  ELSE LET part == clean_text(parts[1])
       IN  IF part # <<>> /\ ~IsDigit(part[1])
           THEN IF HasCJK(part)
                THEN project_parts(Tail(parts), part, title_en)
                ELSE project_parts(Tail(parts), title_zh, part)
           ELSE project_parts(Tail(parts), title_zh, title_en)

\* lines 289-318: the project of a matched text
project_record(element, groups) ==
  LET number == groups[1]
      title  == groups[2]
      titles == IF Contains(element.text, <<"\n">>)
                THEN project_parts(SplitOn(strip(element.text), "\n"), <<>>, <<>>)
                ELSE IF HasCJK(title) THEN <<title, <<>>>> ELSE <<<<>>, title>>
  IN  [ id          |-> S_project_dash \o number,
        number      |-> int(number),
        title_zh    |-> titles[1],
        title_en    |-> titles[2],
        description |-> <<>> ]

\* the local state of extract_research_projects before the loop
ProjectsStart == [ projects |-> <<>>, in_projects_section |-> FALSE ]

\* the branch of lines 285-318 taken whatever the flag
projects_content_unflagged(st, element, text) ==
  With(project_pattern(text), LAMBDA match :
    IF match = None THEN st
    ELSE [st EXCEPT !.projects = Append(@, project_record(element, match[1]))])

\* lines 285-318: an element that is not a section header, under the flag
projects_content(st, element, text) ==
  IF ~st.in_projects_section THEN st
  ELSE With(project_pattern(text), LAMBDA match :
         IF match = None THEN st
         ELSE [st EXCEPT !.projects = Append(@, project_record(element, match[1]))])

\* the loop in which a header of any level that holds no marker clears the flag
projects_step_h3_closes(st, element) ==
  With(clean_text(element.text), LAMBDA text :
      IF element.name \in HeaderNames3
      THEN IF Contains(text, S_Research_Project) \/ Contains(text, S_project_zh)
           THEN [st EXCEPT !.in_projects_section = TRUE]
           ELSE [st EXCEPT !.in_projects_section = FALSE]
      ELSE projects_content(st, element, text))

\* lines 274-318: one iteration of the loop over
\* content.find_all(["h1", "h2", "h3", "p", "li"])
projects_step(st, element) ==
  With(clean_text(element.text), LAMBDA text :
      IF element.name \in HeaderNames3
      THEN IF Contains(text, S_Research_Project) \/ Contains(text, S_project_zh)
           THEN [st EXCEPT !.in_projects_section = TRUE]
           ELSE IF st.in_projects_section /\ element.name \in {"h1", "h2"}
                THEN [st EXCEPT !.in_projects_section = FALSE]
                ELSE projects_content(st, element, text)
      ELSE projects_content(st, element, text))

RECURSIVE projects_loop(_, _)
projects_loop(st, elements) ==
  IF elements = <<>> THEN st
  ELSE With(projects_step(st, elements[1]), LAMBDA next : projects_loop(next, Tail(elements)))

extract_research_projects(soup) ==
  LET content == find_content(soup)
  IN  IF content = None THEN <<>>
      ELSE projects_loop(ProjectsStart,
             find_all(content[1], HeaderNames3 \cup {"p", "li"})).projects

(***************************************************************************)
(* extract_pi_info                                                         *)
(***************************************************************************)
\* section_keywords, in the dict's insertion order
section_keywords ==
  << <<<<"e","d","u","c","a","t","i","o","n">>, "education">>,
     <<<<"U5B78","U6B77">>, "education">>,
     <<<<"p","o","s","i","t","i","o","n">>, "positions">>,
     <<<<"U7D93","U6B77">>, "positions">>,
     <<<<"a","w","a","r","d">>, "awards">>,
     <<<<"U69AE","U8B7D">>, "awards">>,
     <<<<"h","o","n","o","r">>, "awards">>,
     <<<<"s","o","c","i","e","t","y">>, "societies">>,
     <<<<"U5B78","U6703">>, "societies">> >>

S_juan == <<"j","u","a","n">>
S_pi   == <<"p","i">>

\* lines 529-546: the profile with which extract_pi_info starts
DefaultPI ==
  [ name_zh     |-> <<"U962E","U96EA","U82AC">>,
    name_en     |-> <<"H","s","u","e","h","-","F","e","n"," ","J","u","a","n">>,
    title       |-> <<"D","i","s","t","i","n","g","u","i","s","h","e","d"," ","P","r","o","f","e","s","s","o","r">>,
    department  |-> <<"D","e","p","a","r","t","m","e","n","t"," ","o","f"," ","L","i","f","e"," ","S","c","i","e","n","c","e">>,
    institution |-> <<"N","a","t","i","o","n","a","l"," ","T","a","i","w","a","n"," ","U","n","i","v","e","r","s","i","t","y">>,
    email       |-> <<"y","u","k","i","j","u","a","n","@","n","t","u",".","e","d","u",".","t","w">>,
    email2      |-> <<"y","u","k","i","j","u","a","n","@","g","m","a","i","l",".","c","o","m">>,
    phone       |-> <<"+","8","8","6","-","2","-","3","3","6","6","-","4","5","3","6">>,
    fax         |-> <<"+","8","8","6","-","2","-","2","3","6","7","-","3","3","7","4">>,
    address     |-> <<"R","m","."," ","1","1","0","5",","," ","L","i","f","e"," ","S","c","i","e","n","c","e"," ","B","u","i","l","d","i","n","g",","," ","N","a","t","i","o","n","a","l"," ","T","a","i","w","a","n"," ","U","n","i","v","e","r","s","i","t","y",","," ","N","o","."," ","1"," ","S","e","c","."," ","4"," ","R","o","o","s","e","v","e","l","t"," ","R","o","a","d",","," ","T","a","i","p","e","i"," ","1","0","6",","," ","T","a","i","w","a","n">>,
    photo       |-> None,
    bio         |-> <<>>,
    education   |-> <<>>,
    positions   |-> <<>>,
    awards      |-> <<>>,
    societies   |-> <<>> ]

\* the photo pass without its break: the last img whose src holds "juan" or
\* "pi"
pi_photo_last(elements) ==
  LET IsPhoto(e) == Contains(lower(e.img[1]), S_juan) \/ Contains(lower(e.img[1]), S_pi)
      photos == Filter(IsPhoto, find_all(elements, {"img"}))
  IN  IF photos = <<>> THEN None ELSE Some(make_absolute_url(photos[Len(photos)].img[1]))

\* lines 553-557: the first img whose src holds "juan" or "pi"
pi_photo(elements) ==
  LET IsPhoto(e) == Contains(lower(e.img[1]), S_juan) \/ Contains(lower(e.img[1]), S_pi)
      photos == Filter(IsPhoto, find_all(elements, {"img"}))
  IN  IF photos = <<>> THEN None ELSE Some(make_absolute_url(photos[1].img[1]))

\* "\n\n".join(paragraphs)
RECURSIVE JoinParagraphs(_)
JoinParagraphs(paragraphs) ==
  IF paragraphs = <<>> THEN <<>>
  ELSE IF Len(paragraphs) = 1 THEN paragraphs[1]
  ELSE paragraphs[1] \o <<"\n", "\n">> \o JoinParagraphs(Tail(paragraphs))

\* lines 560-567: the first three paragraphs of more than 100 characters
pi_bio(elements) ==
  LET ps == find_all(elements, {"p"})
      texts == [k \in 1..Len(ps) |-> clean_text(ps[k].text)]
      Long(t) == Len(t) > 100
      paragraphs == Filter(Long, texts)
  IN  JoinParagraphs(SubSeq(paragraphs, 1, IF Len(paragraphs) < 3 THEN Len(paragraphs) ELSE 3))

\* the local state of the loop of lines 583-594
PIStart == [ pi |-> DefaultPI, current_section |-> None ]

\* the loop in which a header that matches no keyword closes the section
pi_step_closing(st, element) ==
  With(clean_text(element.text), LAMBDA text :
      IF element.name \in {"h2", "h3", "h4"}
      THEN With(FirstKeyword(section_keywords, lower(text)), LAMBDA k :
             IF k = 0 THEN [st EXCEPT !.current_section = None]
             ELSE [st EXCEPT !.current_section = Some(section_keywords[k][2])])
      ELSE IF element.name = "li" /\ st.current_section # None /\ text # <<>>
           THEN [st EXCEPT !.pi[st.current_section[1]] = Append(@, text)]
           ELSE st)

\* lines 583-594: one iteration of the loop over
\* content.find_all(["h2", "h3", "h4", "li"])
pi_step(st, element) ==
  With(clean_text(element.text), LAMBDA text :
      IF element.name \in {"h2", "h3", "h4"}
      THEN With(FirstKeyword(section_keywords, lower(text)), LAMBDA k :
             IF k = 0 THEN st
             ELSE [st EXCEPT !.current_section = Some(section_keywords[k][2])])
      ELSE IF element.name = "li" /\ st.current_section # None /\ text # <<>>
           THEN [st EXCEPT !.pi[st.current_section[1]] = Append(@, text)]
           ELSE st)

RECURSIVE pi_loop(_, _)
pi_loop(st, elements) ==
  IF elements = <<>> THEN st
  ELSE With(pi_step(st, elements[1]), LAMBDA next : pi_loop(next, Tail(elements)))

extract_pi_info(soup) ==
  LET content == find_content(soup)
  IN  IF content = None THEN DefaultPI
      ELSE pi_loop([ pi |-> [DefaultPI EXCEPT !.photo = pi_photo(content[1]),
                                              !.bio = pi_bio(content[1])],
                     current_section |-> None ],
                   find_all(content[1], {"h2", "h3", "h4", "li"})).pi

(***************************************************************************)
(* extract_image_urls                                                      *)
(***************************************************************************)
S_fetch_php == <<"/","l","i","b","/","e","x","e","/","f","e","t","c","h",".","p","h","p">>
S_media     == <<"m","e","d","i","a","=">>
ImageExtensions == <<<<".","j","p","g">>, <<".","j","p","e","g">>, <<".","p","n","g">>, <<".","g","i","f">>, <<".","w","e","b","p">>>>

\* urllib.parse.unquote for the escapes %20, %2F and %3A
RECURSIVE unquote(_)
unquote(s) ==
  IF s = <<>> THEN <<>>
  ELSE IF Len(s) >= 3 /\ SubSeq(s, 1, 3) = <<"%", "2", "0">> THEN <<" ">> \o unquote(From(s, 4))
  ELSE IF Len(s) >= 3 /\ SubSeq(s, 1, 3) = <<"%", "2", "F">> THEN <<"/">> \o unquote(From(s, 4))
  ELSE IF Len(s) >= 3 /\ SubSeq(s, 1, 3) = <<"%", "3", "A">> THEN <<":">> \o unquote(From(s, 4))
  ELSE <<s[1]>> \o unquote(Tail(s))

\* s.split(sep)[-1] for a separator of several characters
RECURSIVE AfterLast(_, _)
AfterLast(s, sep) ==
  LET i == Find(s, sep)
  IN  IF i = 0 THEN s ELSE AfterLast(From(s, i + Len(sep)), sep)

\* lines 109-113: the filename of an absolute image url
image_filename(src) ==
  IF Contains(src, S_media)
  THEN unquote(AfterLast(src, S_media))
  ELSE unquote(SplitOn(AfterLast(src, <<"/">>), "?")[1])

\* line 103: the images that are collected
image_wanted(src) ==
  Contains(src, S_fetch_php) \/ \E k \in 1..Len(ImageExtensions) : endswith(src, ImageExtensions[k])

\* lines 105-119: the reference of an img element
image_reference(img) ==
  LET src == IF startswith(img.img[1], S_http) THEN img.img[1]
             ELSE urljoin(BASE_URL, img.img[1])
  IN  [ url |-> src, filename |-> image_filename(src), alt |-> img.alt ]

\* extract_image_urls(soup): over soup.find_all("img"), the whole document
extract_image_urls(soup) ==
  LET Wanted(e) == image_wanted(e.img[1])
      imgs == Filter(Wanted, find_all(soup.elements, {"img"}))
  IN  [k \in 1..Len(imgs) |-> image_reference(imgs[k])]

(***************************************************************************)
(* main: the deduplication of lines 713-719                                *)
(***************************************************************************)
\* all_images taken as they are, without line 717
image_always_new(seen_urls, img) == TRUE

\* line 717: an image is new when its url is not in seen_urls
image_is_new(seen_urls, img) == img.url \notin seen_urls

RECURSIVE unique_from(_, _, _)
unique_from(seen_urls, unique_images, images) ==
  IF images = <<>> THEN unique_images
  ELSE IF image_is_new(seen_urls, images[1])
       THEN unique_from(seen_urls \cup {images[1].url},
                        Append(unique_images, images[1]), Tail(images))
       ELSE unique_from(seen_urls, unique_images, Tail(images))

\* lines 714-719: unique_images of all_images
unique_images_of(images) == unique_from({}, <<>>, images)

\* fetch_page's default retries
DefaultRetries == 3

(***************************************************************************)
(* Elements of a parsed document.                                          *)
(***************************************************************************)
\* an element with text only
Elem(name, text) ==
  [name |-> name, text |-> text, img |-> None, hrefs |-> <<>>, alt |-> <<>>]

\* an element that holds a elements with the given href attributes
ElemA(name, text, hrefs) ==
  [name |-> name, text |-> text, img |-> None, hrefs |-> hrefs, alt |-> <<>>]

\* an element that holds an img with the given src (an img element itself
\* when name = "img")
ElemImg(name, text, src) ==
  [name |-> name, text |-> text, img |-> Some(src), hrefs |-> <<>>, alt |-> <<>>]

(***************************************************************************)
(* State.                                                                  *)
(***************************************************************************)
VARIABLES
  news_pc,            \* extract_news: "find_content", "loop" or "return"
  news_lis,           \* extract_news: the list items iterated so far
  news_items,         \* extract_news: its list news_items
  people_pc,          \* extract_people: "find_content", "loop" or "return"
  people_seen,        \* extract_people: the elements iterated so far
  people,             \* extract_people: its roster people
  current_category,   \* extract_people: None or the category
  is_alumni_section,  \* extract_people: the alumni flag
  scripts_st,         \* extract_people of src/scripts: its people and category
  hl_pc,              \* extract_research_highlights: "find_content", "loop", "return"
  hl_seen,            \* extract_research_highlights: the elements iterated so far
  highlights,         \* extract_research_highlights: its list highlights
  current_highlight,  \* extract_research_highlights: None or the open highlight
  member_in,          \* the header and the member line handed to extract_people
  year_token,         \* the two-digit year token handed to the extractors
  year_out,           \* None, or what each extractor made of year_token
  main_pc,            \* main: the step it is at
  attempt,            \* fetch_page: the loop variable attempt
  start_soup,         \* main: None or the start page
  members_soup,       \* main: None or the members page
  pi_soup,            \* main: None or the PI page
  all_images,         \* main: the image references accumulated
  files,              \* OUTPUT_DIR: file name -> None or the value written
  pi_pc,              \* extract_pi_info: where the call stands
  pi_doc,             \* extract_pi_info: the parsed page
  pi,                 \* extract_pi_info: the profile
  current_section,    \* extract_pi_info: None or the section of the last matching header
  pi_rest,            \* extract_pi_info: the headers and list items still to visit
  projects_pc,        \* extract_research_projects: where the call stands
  projects_seen,      \* extract_research_projects: the elements visited so far
  projects,           \* extract_research_projects: the list being built
  in_projects_section,\* extract_research_projects: the flag of line 272
  fetch_pc,           \* fetch_page: where the call stands
  fetch_retries,      \* fetch_page: the parameter retries
  fetch_attempt,      \* fetch_page: the loop variable attempt
  fetch_log,          \* fetch_page: the requests, sleeps and returns so far
  dl_pc,              \* download_images.main: where the run stands
  dl_manifest,        \* download_images.main: None or the list of the manifest
  dl_i,               \* download_images.main: the loop variable i
  dl_files,           \* OUTPUT_DIR of download_images: the paths that exist
  dl_before,          \* OUTPUT_DIR of download_images: the paths that existed when main began
  dl_stats,           \* download_images.main: stats
  dl_log,             \* download_images.main: per entry, the request and what download_image gave
  bare_in,            \* extract_people: None or the header and the element of SpecBare
  images_pc,          \* extract_image_urls: where the call stands
  images_soup,        \* extract_image_urls: the parsed page
  images_out,         \* extract_image_urls: the list returned
  stateful_soup,      \* the page given to the loops of the four extractors
  traces,             \* per extractor, <<>> or its local state before and after each element
  header_in,          \* extract_people: None or the header of SpecKeyword
  resolve_src,        \* the members page of SpecResolve: None or the src of its img
  resolve_out         \* SpecResolve: None or the roster and the image references

newsVars     == <<news_pc, news_lis, news_items>>
peopleVars   == <<people_pc, people_seen, people, current_category, is_alumni_section, scripts_st>>
hlVars       == <<hl_pc, hl_seen, highlights, current_highlight>>
memberVars   == <<member_in>>
yearVars     == <<year_token, year_out>>
mainVars     == <<main_pc, attempt, start_soup, members_soup, pi_soup, all_images, files>>
piVars       == <<pi_pc, pi_doc, pi, current_section, pi_rest>>
projectsVars == <<projects_pc, projects_seen, projects, in_projects_section>>
fetchVars    == <<fetch_pc, fetch_retries, fetch_attempt, fetch_log>>
downloadVars == <<dl_pc, dl_manifest, dl_i, dl_files, dl_before, dl_stats, dl_log>>
bareVars     == <<bare_in>>
imagesVars   == <<images_pc, images_soup, images_out>>
statefulVars == <<stateful_soup, traces>>
keywordVars == <<header_in>>
resolveVars == <<resolve_src, resolve_out>>

vars == <<newsVars, peopleVars, hlVars, memberVars, yearVars, mainVars, piVars, projectsVars, fetchVars, downloadVars, bareVars, imagesVars, statefulVars, keywordVars, resolveVars>>

\* what each machine leaves alone
notNews       == <<peopleVars, hlVars, memberVars, yearVars, mainVars, piVars, projectsVars, fetchVars, downloadVars, bareVars, imagesVars, statefulVars, keywordVars, resolveVars>>
notPeople     == <<newsVars, hlVars, memberVars, yearVars, mainVars, piVars, projectsVars, fetchVars, downloadVars, bareVars, imagesVars, statefulVars, keywordVars, resolveVars>>
notHighlights == <<newsVars, peopleVars, memberVars, yearVars, mainVars, piVars, projectsVars, fetchVars, downloadVars, bareVars, imagesVars, statefulVars, keywordVars, resolveVars>>
notMember     == <<newsVars, hlVars, yearVars, mainVars, piVars, projectsVars, fetchVars, downloadVars, bareVars, imagesVars, statefulVars, keywordVars, resolveVars>>
notYear       == <<newsVars, peopleVars, hlVars, memberVars, mainVars, piVars, projectsVars, fetchVars, downloadVars, bareVars, imagesVars, statefulVars, keywordVars, resolveVars>>
notMain       == <<newsVars, peopleVars, hlVars, memberVars, yearVars, piVars, projectsVars, fetchVars, downloadVars, bareVars, imagesVars, statefulVars, keywordVars, resolveVars>>
notPI         == <<newsVars, peopleVars, hlVars, memberVars, yearVars, mainVars, projectsVars, fetchVars, downloadVars, bareVars, imagesVars, statefulVars, keywordVars, resolveVars>>
notProjects   == <<newsVars, peopleVars, hlVars, memberVars, yearVars, mainVars, piVars, fetchVars, downloadVars, bareVars, imagesVars, statefulVars, keywordVars, resolveVars>>
notFetchPage  == <<newsVars, peopleVars, hlVars, memberVars, yearVars, mainVars, piVars, projectsVars, downloadVars, bareVars, imagesVars, statefulVars, keywordVars, resolveVars>>
notDownload   == <<newsVars, peopleVars, hlVars, memberVars, yearVars, mainVars, piVars, projectsVars, fetchVars, bareVars, imagesVars, statefulVars, keywordVars, resolveVars>>
notBare       == <<newsVars, hlVars, memberVars, yearVars, mainVars, piVars, projectsVars, fetchVars, downloadVars, imagesVars, statefulVars, keywordVars, resolveVars>>
notImages     == <<newsVars, peopleVars, hlVars, memberVars, yearVars, mainVars, piVars, projectsVars, fetchVars, downloadVars, bareVars, statefulVars, keywordVars, resolveVars>>
notStateful   == <<newsVars, peopleVars, hlVars, memberVars, yearVars, mainVars, piVars, projectsVars, fetchVars, downloadVars, bareVars, imagesVars, keywordVars, resolveVars>>
notKeyword    == <<newsVars, hlVars, memberVars, yearVars, mainVars, piVars, projectsVars, fetchVars, downloadVars, bareVars, imagesVars, statefulVars, resolveVars>>
notResolve    == <<newsVars, peopleVars, hlVars, memberVars, yearVars, mainVars, piVars, projectsVars, fetchVars, downloadVars, bareVars, imagesVars, statefulVars, keywordVars>>
notCopies     == <<newsVars, hlVars, memberVars, yearVars, mainVars, piVars, projectsVars, fetchVars, downloadVars, bareVars, imagesVars, statefulVars, keywordVars, resolveVars>>

(***************************************************************************)
(* extract_news, one list item at a time.                                  *)
(***************************************************************************)
MaxNews == 3

T_news_A == <<"2","4",".","0","3"," ","A">>
T_news_B == <<" ","2","4",".","0","1","\t"," ","B">>
T_news_C == <<"2","3",".","1","2"," ","C">>
T_news_E == <<"2","4",".","0","3"," ","E">>
T_news_D == <<"2","4",".","1","3"," ","D">>
T_news_award == <<"9","9",".","0","5"," ","A","w","a","r","d">>
T_news_4digit == <<"2","0","2","4",".","0","3"," ","X">>
H_paper == <<"/","l","i","b","/","e","x","e","/","f","e","t","c","h",".","p","h","p","?","m","e","d","i","a","=","p","a","p","e","r",".","p","d","f">>

NewsLis ==
  { Elem("li", T_news_A), Elem("li", T_news_B), Elem("li", T_news_C),
    ElemA("li", T_news_E, <<Some(H_paper)>>), Elem("li", T_news_D),
    Elem("li", T_news_award), Elem("li", T_news_4digit) }

NewsIdle ==
  /\ news_pc = "idle"
  /\ news_lis = <<>>
  /\ news_items = <<>>

NewsInit ==
  /\ news_pc = "find_content"
  /\ news_lis = <<>>
  /\ news_items = <<>>

\* lines 149-152: no content root, return the empty news_items
NewsNoContent ==
  /\ news_pc = "find_content"
  /\ news_pc' = "return"
  /\ UNCHANGED <<news_lis, news_items>>
  /\ UNCHANGED notNews

NewsContent ==
  /\ news_pc = "find_content"
  /\ news_pc' = "loop"
  /\ UNCHANGED <<news_lis, news_items>>
  /\ UNCHANGED notNews

\* lines 158-192: one iteration of the loop over content.find_all("li")
NewsLi(li) ==
  /\ news_pc = "loop"
  /\ Len(news_lis) < MaxNews
  /\ news_lis' = Append(news_lis, li)
  /\ news_items' = news_items \o news_item(li)
  /\ UNCHANGED news_pc
  /\ UNCHANGED notNews

\* lines 194-197: the loop is over; sort and return
NewsSort ==
  /\ news_pc = "loop"
  /\ news_items' = news_sort(news_items)
  /\ news_pc' = "return"
  /\ UNCHANGED news_lis
  /\ UNCHANGED notNews

NewsNext ==
  \/ NewsNoContent
  \/ NewsContent
  \/ \E li \in NewsLis : NewsLi(li)
  \/ NewsSort

(***************************************************************************)
(* extract_people of src/juanlab-astro, one element at a time.             *)
(***************************************************************************)
MaxPeople == 4

T_h_alumni   == <<"A","l","u","m","n","i">>
T_h_phd      == <<"P","h","D"," ","S","t","u","d","e","n","t","s">>
T_h_master   == <<"M","a","s","t","e","r"," ","S","t","u","d","e","n","t","s">>
T_h_visiting == <<"V","i","s","i","t","i","n","g"," ","S","c","h","o","l","a","r","s">>
T_h_former   == <<"U7562","U696D">>
T_h_postdoc  == <<"P","o","s","t","d","o","c","s">>
T_h_other    == <<"C","o","n","t","a","c","t">>
T_li_member  == <<"U738B","U5C0F","U660E"," ","W","a","n","g"," ","M","i","n","g"," ","(","2","1","-","L","S",")"," ","s","y","s","t","e","m","s"," ","b","i","o","l","o","g","y",","," ","g","e","n","o","m","i","c","s">>
T_li_bare    == <<"T","o","m"," ","L","e","e">>
T_p_long     == <<"T","h","e"," ","l","a","b","o","r","a","t","o","r","y"," ","w","e","l","c","o","m","e","s"," ","s","t","u","d","e","n","t","s"," ","f","r","o","m"," ","e","v","e","r","y"," ","d","e","p","a","r","t","m","e","n","t",".">>
H_photo      == <<"_","m","e","d","i","a","/","m","e","m","b","e","r","s","/","w","a","n","g",".","j","p","g">>

PeopleElements ==
  { Elem("h2", T_h_alumni), Elem("h3", T_h_phd), Elem("h3", T_h_master),
    Elem("h2", T_h_visiting), Elem("h2", T_h_former), Elem("h1", T_h_other),
    Elem("h3", T_h_postdoc),
    Elem("li", T_li_member), ElemImg("tr", T_li_bare, H_photo), Elem("p", T_p_long) }

ScriptsStart == [ people |-> EmptyPeople, current_category |-> None ]

PeopleIdle ==
  /\ people_pc = "idle"
  /\ people_seen = <<>>
  /\ people = EmptyPeople
  /\ current_category = None
  /\ is_alumni_section = FALSE
  /\ scripts_st = ScriptsStart

PeopleInit ==
  /\ people_pc = "find_content"
  /\ people_seen = <<>>
  /\ people = PeopleStart.people
  /\ current_category = PeopleStart.current_category
  /\ is_alumni_section = PeopleStart.is_alumni_section
  /\ scripts_st = ScriptsStart

\* the local variables of extract_people as one value
PeopleState ==
  [ people |-> people, current_category |-> current_category,
    is_alumni_section |-> is_alumni_section ]

SetPeopleState(st) ==
  /\ people' = st.people
  /\ current_category' = st.current_category
  /\ is_alumni_section' = st.is_alumni_section

\* lines 338-340: no content root, return the empty roster
PeopleNoContent ==
  /\ people_pc = "find_content"
  /\ people_pc' = "return"
  /\ UNCHANGED <<people_seen, people, current_category, is_alumni_section, scripts_st>>
  /\ UNCHANGED notPeople

PeopleContent ==
  /\ people_pc = "find_content"
  /\ people_pc' = "loop"
  /\ UNCHANGED <<people_seen, people, current_category, is_alumni_section, scripts_st>>
  /\ UNCHANGED notPeople

\* lines 372-522: one iteration of the loop
PeopleElement(element) ==
  /\ people_pc = "loop"
  /\ Len(people_seen) < MaxPeople
  /\ people_seen' = Append(people_seen, element)
  /\ SetPeopleState(people_step(PeopleState, element))
  /\ UNCHANGED <<people_pc, scripts_st>>
  /\ UNCHANGED notPeople

\* line 524: return people
PeopleReturn ==
  /\ people_pc = "loop"
  /\ people_pc' = "return"
  /\ UNCHANGED <<people_seen, people, current_category, is_alumni_section, scripts_st>>
  /\ UNCHANGED notPeople

PeopleNext ==
  \/ PeopleNoContent
  \/ PeopleContent
  \/ \E element \in PeopleElements : PeopleElement(element)
  \/ PeopleReturn

(***************************************************************************)
(* extract_research_highlights, one element at a time.                     *)
(***************************************************************************)
MaxHighlightElements == 4

T_h_atp       == <<"A","T","P"," ","s","y","n","t","h","a","s","e">>
T_h_bigdata   == <<"U751F","U91AB","U5927","U6578","U64DA">>
T_h_section   == <<"R","e","s","e","a","r","c","h"," ","H","i","g","h","l","i","g","h","t","s",":"," ","A","T","P">>
T_h_pubs      == <<"P","u","b","l","i","c","a","t","i","o","n","s">>
T_p_51        == <<"E","c","t","o","p","i","c"," ","A","T","P"," ","s","y","n","t","h","a","s","e"," ","i","s"," ","a"," ","t","a","r","g","e","t"," ","o","n"," ","a"," ","c","e","l","l"," ","s","u","r","f","a","c","e",".">>
T_p_50        == <<"E","c","t","o","p","i","c"," ","A","T","P"," ","s","y","n","t","h","a","s","e"," ","i","s"," ","a"," ","t","a","r","g","e","t"," ","o","n"," ","a"," ","c","e","l","l"," ","s","u","r","f","a","c","e">>
H_img_highlight == <<"/","l","i","b","/","e","x","e","/","f","e","t","c","h",".","p","h","p","?","m","e","d","i","a","=","r","e","s","e","a","r","c","h",":","a","t","p",".","p","n","g">>
H_img_logo      == <<"/","l","i","b","/","e","x","e","/","f","e","t","c","h",".","p","h","p","?","m","e","d","i","a","=","w","i","k","i",":","l","o","g","o",".","p","n","g">>

HighlightElements ==
  { Elem("h2", T_h_atp), Elem("h3", T_h_bigdata), Elem("h1", T_h_section),
    Elem("h2", T_h_pubs), Elem("p", T_p_51), Elem("p", T_p_50),
    ElemImg("a", <<>>, H_img_highlight), ElemImg("a", <<>>, H_img_logo) }

HighlightsIdle ==
  /\ hl_pc = "idle"
  /\ hl_seen = <<>>
  /\ highlights = <<>>
  /\ current_highlight = None

HighlightsInit ==
  /\ hl_pc = "find_content"
  /\ hl_seen = <<>>
  /\ highlights = HighlightsStart.highlights
  /\ current_highlight = HighlightsStart.current_highlight

\* lines 211-213: no content root, return the empty list
HighlightsNoContent ==
  /\ hl_pc = "find_content"
  /\ hl_pc' = "return"
  /\ UNCHANGED <<hl_seen, highlights, current_highlight>>
  /\ UNCHANGED notHighlights

HighlightsContent ==
  /\ hl_pc = "find_content"
  /\ hl_pc' = "loop"
  /\ UNCHANGED <<hl_seen, highlights, current_highlight>>
  /\ UNCHANGED notHighlights

\* lines 219-253: one iteration of the loop
HighlightsElement(element) ==
  /\ hl_pc = "loop"
  /\ Len(hl_seen) < MaxHighlightElements
  /\ hl_seen' = Append(hl_seen, element)
  /\ LET st == highlights_step([ highlights |-> highlights,
                                 current_highlight |-> current_highlight ], element)
     IN  /\ highlights' = st.highlights
         /\ current_highlight' = st.current_highlight
  /\ UNCHANGED hl_pc
  /\ UNCHANGED notHighlights

\* lines 255-258: the loop is over; flush and return
HighlightsReturn ==
  /\ hl_pc = "loop"
  /\ highlights' = highlights_flush([ highlights |-> highlights,
                                      current_highlight |-> current_highlight ])
  /\ hl_pc' = "return"
  /\ UNCHANGED <<hl_seen, current_highlight>>
  /\ UNCHANGED notHighlights

HighlightsNext ==
  \/ HighlightsNoContent
  \/ HighlightsContent
  \/ \E element \in HighlightElements : HighlightsElement(element)
  \/ HighlightsReturn

(***************************************************************************)
(* extract_people of both copies on one header and one member line.        *)
(***************************************************************************)
MaxTags == 2

N_wang == <<"U738B","U5C0F","U660E">>
N_lee  == <<"U674E","U5927","U83EF">>
W_Wang == <<"W","a","n","g">>
W_Ming == <<"M","i","n","g">>
W_Tom  == <<"T","o","m">>
W_Da   == <<"D","a">>
W_Hua  == <<"H","u","a">>
W_Lee  == <<"L","e","e">>
D_LS   == <<"L","S">>
D_Med  == <<"M","e","d">>
D_BEBI2 == <<"B","E","B","I","2">>
D_B21  == <<"B","2","1">>
G_systems  == <<"s","y","s","t","e","m","s"," ","b","i","o","l","o","g","y">>
G_genomics == <<"g","e","n","o","m","i","c","s">>

MemberHeaders == { Elem("h3", T_h_phd), Elem("h2", T_h_visiting) }
MemberNamesZh == { N_wang, N_lee }
MemberNamesEn == { <<W_Wang, W_Ming>>, <<W_Tom>>, <<W_Da, W_Hua, W_Lee>> }
MemberYears   == { <<"2","1">>, <<"0","0">>, <<"4","9">>, <<"5","0">>, <<"9","9">> }
MemberDepts   == { D_LS, D_Med, D_BEBI2, D_B21 }
MemberTags    == { G_systems, G_genomics }
MemberSeparators == { <<",", " ">>, <<" ", ",">> }

\* the sequences over S of at most n elements
SeqsUpTo(S, n) == UNION { [1..k -> S] : k \in 0..n }

\* sep.join(parts)
RECURSIVE Join(_, _)
Join(parts, sep) ==
  IF parts = <<>> THEN <<>>
  ELSE IF Len(parts) = 1 THEN parts[1]
  ELSE parts[1] \o sep \o Join(Tail(parts), sep)

MemberInputs ==
  [ header : MemberHeaders, zh : MemberNamesZh, en : MemberNamesEn,
    yy : MemberYears, dept : MemberDepts,
    tags : SeqsUpTo(MemberTags, MaxTags), sep : MemberSeparators ]

\* '<CJK name> <Latin tokens> (YY-DEPT) tag1, tag2'
MemberLineText(in) ==
  in.zh \o <<" ">> \o Join(in.en, <<" ">>) \o <<" ", "(">> \o in.yy \o <<"-">>
    \o in.dept \o <<")", " ">> \o Join(in.tags, in.sep)

MemberIdle == member_in = None

MemberInit ==
  /\ member_in \in { Some(in) : in \in MemberInputs }
  /\ people_pc = "header"
  /\ people_seen = <<>>
  /\ people = PeopleStart.people
  /\ current_category = PeopleStart.current_category
  /\ is_alumni_section = PeopleStart.is_alumni_section
  /\ scripts_st = ScriptsStart

\* both copies iterate over the header
MemberHeader ==
  /\ people_pc = "header"
  /\ people_seen' = Append(people_seen, member_in[1].header)
  /\ SetPeopleState(people_step(PeopleState, member_in[1].header))
  /\ scripts_st' = scripts_people_step(scripts_st, member_in[1].header)
  /\ people_pc' = "line"
  /\ UNCHANGED member_in
  /\ UNCHANGED notMember

\* both copies iterate over the list item that holds the member line
MemberLine ==
  LET li == Elem("li", MemberLineText(member_in[1]))
  IN  /\ people_pc = "line"
      /\ people_seen' = Append(people_seen, li)
      /\ SetPeopleState(people_step(PeopleState, li))
      /\ scripts_st' = scripts_people_step(scripts_st, li)
      /\ people_pc' = "return"
      /\ UNCHANGED member_in
      /\ UNCHANGED notMember

MemberNext == MemberHeader \/ MemberLine

(***************************************************************************)
(* The extractors on one two-digit year token.                             *)
(***************************************************************************)
T_news_tail    == <<".","0","1"," ","A">>
T_member_head  == <<"T","o","m"," ","(">>
T_member_tail  == <<"-","L","S",")"," ","g","e","n","o","m","i","c","s">>
T_project_tail == <<"."," ","S","y","s","t","e","m","s"," ","b","i","o","l","o","g","y">>
T_h_projects   == <<"R","e","s","e","a","r","c","h"," ","P","r","o","j","e","c","t","s">>

YearTokens == { <<Digits[i], Digits[j]>> : i, j \in 1..10 }

YearIdle ==
  /\ year_token = None
  /\ year_out = None

YearInit ==
  /\ year_token \in { Some(t) : t \in YearTokens }
  /\ year_out = None

\* each extractor on a document that holds the token where it reads a number
YearExtract ==
  LET yy == year_token[1]
      members == << Elem("h3", T_h_phd),
                    Elem("li", T_member_head \o yy \o T_member_tail) >>
  IN  /\ year_out = None
      /\ year_out' = Some(
           [ news     |-> extract_news([root |-> TRUE,
                            elements |-> <<Elem("li", yy \o T_news_tail)>>]),
             people   |-> extract_people([root |-> TRUE, elements |-> members]),
             scripts  |-> scripts_extract_people([root |-> TRUE, elements |-> members]),
             projects |-> extract_research_projects([root |-> TRUE,
                            elements |-> << Elem("h2", T_h_projects),
                                            Elem("li", yy \o T_project_tail) >>]) ])
      /\ UNCHANGED year_token
      /\ UNCHANGED notYear

YearNext == YearExtract

(***************************************************************************)
(* main                                                                    *)
(***************************************************************************)
MaxImages == 3

FileNames ==
  { "news.json", "people.json", "research.json", "projects.json", "pi.json",
    "images_manifest.json" }

T_h_highlights == <<"R","e","s","e","a","r","c","h"," ","H","i","g","h","l","i","g","h","t","s">>
T_li_project   == <<"1","."," ","S","y","s","t","e","m","s"," ","b","i","o","l","o","g","y">>
T_h_education  == <<"E","d","u","c","a","t","i","o","n">>
T_li_degree    == <<"P","h",".","D",".",","," ","N","a","t","i","o","n","a","l"," ","T","a","i","w","a","n"," ","U","n","i","v","e","r","s","i","t","y">>
A_lab   == <<"l","a","b">>
A_group == <<"g","r","o","u","p"," ","p","h","o","t","o">>
H_img_lab  == <<"/","l","i","b","/","e","x","e","/","f","e","t","c","h",".","p","h","p","?","m","e","d","i","a","=","l","a","b",".","p","n","g">>
H_img_Lab  == <<"/","l","i","b","/","e","x","e","/","f","e","t","c","h",".","p","h","p","?","m","e","d","i","a","=","L","a","b",".","p","n","g">>

\* an img element with its src and alt
Img(src, alt) ==
  [name |-> "img", text |-> <<>>, img |-> Some(src), hrefs |-> <<>>, alt |-> alt]

\* the img elements of the pages: one url twice with two alt texts, and a url
\* that differs from it in one character
PageImages == { Img(H_img_lab, A_lab), Img(H_img_lab, A_group), Img(H_img_Lab, A_lab) }

StartBody ==
  << Elem("h1", T_h_highlights), Elem("h2", T_h_atp), Elem("p", T_p_51),
     Elem("li", T_news_C), Elem("li", T_news_A),
     Elem("h2", T_h_projects), Elem("li", T_li_project) >>

\* the members page: current students only, or alumni with their own headers
MembersBodies ==
  { << Elem("h3", T_h_phd), Elem("li", T_li_member) >>,
    << Elem("h2", T_h_alumni), Elem("h3", T_h_phd), Elem("li", T_li_member),
       Elem("li", T_li_bare) >> }

PIBody == << Elem("h2", T_h_education), Elem("li", T_li_degree) >>

\* the documents a page can be: with or without the content root, and with
\* any images that keep the run's images within MaxImages
PageDocs(body, room) ==
  { [root |-> r, elements |-> body \o imgs] :
      r \in BOOLEAN, imgs \in SeqsUpTo(PageImages, room) }

\* the images a document holds
ImageCount(soup) == Len(find_all(soup.elements, {"img"}))

Room ==
  MaxImages - (IF start_soup = None THEN 0 ELSE ImageCount(start_soup[1]))
            - (IF members_soup = None THEN 0 ELSE ImageCount(members_soup[1]))

MainIdle ==
  /\ main_pc = "idle"
  /\ attempt = 0
  /\ start_soup = None
  /\ members_soup = None
  /\ pi_soup = None
  /\ all_images = <<>>
  /\ files = [f \in FileNames |-> None]

\* lines 613-621: the output directory is there and empty, the first fetch begins
MainInit ==
  /\ main_pc = "fetch_start"
  /\ attempt = 0
  /\ start_soup = None
  /\ members_soup = None
  /\ pi_soup = None
  /\ all_images = <<>>
  /\ files = [f \in FileNames |-> None]

FetchSteps == { "fetch_start", "fetch_members", "fetch_pi" }

AfterFetch(pc) ==
  CASE pc = "fetch_start"   -> "start"
    [] pc = "fetch_members" -> "members"
    [] pc = "fetch_pi"      -> "pi"

PageBodies(pc) ==
  CASE pc = "fetch_start"   -> {StartBody}
    [] pc = "fetch_members" -> MembersBodies
    [] pc = "fetch_pi"      -> {PIBody}

\* fetch_page returns result to main
FetchReturns(result) ==
  /\ start_soup'   = IF main_pc = "fetch_start" THEN result ELSE start_soup
  /\ members_soup' = IF main_pc = "fetch_members" THEN result ELSE members_soup
  /\ pi_soup'      = IF main_pc = "fetch_pi" THEN result ELSE pi_soup
  /\ main_pc' = AfterFetch(main_pc)
  /\ attempt' = 0

\* lines 83-88: the request of this attempt succeeds, the page is returned
FetchOk ==
  /\ main_pc \in FetchSteps
  /\ attempt < DefaultRetries
  /\ \E body \in PageBodies(main_pc) :
       \E soup \in PageDocs(body, Room) : FetchReturns(Some(soup))
  /\ UNCHANGED <<all_images, files>>
  /\ UNCHANGED notMain

\* lines 89-94: the request of this attempt fails; after the last attempt
\* fetch_page returns None
FetchFails ==
  /\ main_pc \in FetchSteps
  /\ attempt < DefaultRetries
  /\ IF attempt + 1 < DefaultRetries
     THEN /\ attempt' = attempt + 1
          /\ UNCHANGED <<main_pc, start_soup, members_soup, pi_soup>>
     ELSE FetchReturns(None)
  /\ UNCHANGED <<all_images, files>>
  /\ UNCHANGED notMain

\* lines 623-649: the start page was fetched
StartExtract ==
  /\ main_pc = "start"
  /\ start_soup # None
  /\ files' = [files EXCEPT
       !["news.json"]     = Some(extract_news(start_soup[1])),
       !["research.json"] = Some(extract_research_highlights(start_soup[1])),
       !["projects.json"] = Some(extract_research_projects(start_soup[1]))]
  /\ all_images' = all_images \o extract_image_urls(start_soup[1])
  /\ main_pc' = "fetch_members"
  /\ UNCHANGED <<attempt, start_soup, members_soup, pi_soup>>
  /\ UNCHANGED notMain

\* lines 650-651: the start page is absent
StartMissing ==
  /\ main_pc = "start"
  /\ start_soup = None
  /\ main_pc' = "fetch_members"
  /\ UNCHANGED <<attempt, start_soup, members_soup, pi_soup, all_images, files>>
  /\ UNCHANGED notMain

\* lines 659-675: the members page was fetched
MembersExtract ==
  /\ main_pc = "members"
  /\ members_soup # None
  /\ files' = [files EXCEPT !["people.json"] = Some(extract_people(members_soup[1]))]
  /\ all_images' = all_images \o extract_image_urls(members_soup[1])
  /\ main_pc' = "fetch_pi"
  /\ UNCHANGED <<attempt, start_soup, members_soup, pi_soup>>
  /\ UNCHANGED notMain

\* lines 676-687: the members page is absent, an empty people.json is written
MembersMissing ==
  /\ main_pc = "members"
  /\ members_soup = None
  /\ files' = [files EXCEPT !["people.json"] =
       Some([ phd_students     |-> <<>>,
              masters_students |-> <<>>,
              undergrads       |-> <<>>,
              visiting         |-> <<>>,
              alumni           |-> <<>>,
              postdocs         |-> <<>> ])]
  /\ main_pc' = "fetch_pi"
  /\ UNCHANGED <<attempt, start_soup, members_soup, pi_soup, all_images>>
  /\ UNCHANGED notMain

\* lines 695-704: the PI page was fetched
PIExtract ==
  /\ main_pc = "pi"
  /\ pi_soup # None
  /\ files' = [files EXCEPT !["pi.json"] = Some(extract_pi_info(pi_soup[1]))]
  /\ all_images' = all_images \o extract_image_urls(pi_soup[1])
  /\ main_pc' = "manifest"
  /\ UNCHANGED <<attempt, start_soup, members_soup, pi_soup>>
  /\ UNCHANGED notMain

\* lines 705-706: the PI page is absent
PIMissing ==
  /\ main_pc = "pi"
  /\ pi_soup = None
  /\ main_pc' = "manifest"
  /\ UNCHANGED <<attempt, start_soup, members_soup, pi_soup, all_images, files>>
  /\ UNCHANGED notMain

\* lines 713-724: the images are deduplicated and the manifest is written
WriteManifest ==
  /\ main_pc = "manifest"
  /\ files' = [files EXCEPT !["images_manifest.json"] = Some(unique_images_of(all_images))]
  /\ main_pc' = "done"
  /\ UNCHANGED <<attempt, start_soup, members_soup, pi_soup, all_images>>
  /\ UNCHANGED notMain

MainNext ==
  \/ FetchOk
  \/ FetchFails
  \/ StartExtract
  \/ StartMissing
  \/ MembersExtract
  \/ MembersMissing
  \/ PIExtract
  \/ PIMissing
  \/ WriteManifest

(***************************************************************************)
(* extract_pi_info, one pass and one element at a time.                    *)
(***************************************************************************)
MaxPIElements == 3

H_img_juan == <<"/","l","i","b","/","e","x","e","/","f","e","t","c","h",".","p","h","p","?","m","e","d","i","a","=","p","e","o","p","l","e",":","j","u","a","n",".","j","p","g">>
H_img_PI   == <<"/","l","i","b","/","e","x","e","/","f","e","t","c","h",".","p","h","p","?","m","e","d","i","a","=","p","e","o","p","l","e",":","P","I",".","J","P","G">>
T_h_awards    == <<"H","o","n","o","r","s"," ","a","n","d"," ","A","w","a","r","d","s">>
T_li_prize    == <<"B","e","s","t"," ","P","a","p","e","r">>
T_li_blank    == <<" ">>

\* the elements of the PI page
PIElements ==
  { Img(H_img_juan, <<>>), Img(H_img_PI, <<>>), Img(H_img_logo, <<>>),
    Elem("h2", T_h_education), Elem("h3", T_h_awards), Elem("h4", T_h_other),
    Elem("li", T_li_degree), Elem("li", T_li_prize), Elem("li", T_li_blank) }

PIIdle ==
  /\ pi_pc = "idle"
  /\ pi_doc = [root |-> FALSE, elements |-> <<>>]
  /\ pi = DefaultPI
  /\ current_section = None
  /\ pi_rest = <<>>

\* lines 527-546: extract_pi_info is called on a parsed page
PIInit ==
  /\ pi_pc = "find_content"
  /\ pi_doc \in [root : BOOLEAN, elements : SeqsUpTo(PIElements, MaxPIElements)]
  /\ pi = DefaultPI
  /\ current_section = None
  /\ pi_rest = <<>>

\* lines 548-550: no content root
PINoContent ==
  /\ pi_pc = "find_content"
  /\ find_content(pi_doc) = None
  /\ pi_pc' = "return"
  /\ UNCHANGED <<pi_doc, pi, current_section, pi_rest>>
  /\ UNCHANGED notPI

\* lines 548-557: the content root is found and the photo is looked for
PIPhoto ==
  /\ pi_pc = "find_content"
  /\ find_content(pi_doc) # None
  /\ pi' = [pi EXCEPT !.photo = pi_photo(find_content(pi_doc)[1])]
  /\ pi_pc' = "bio"
  /\ UNCHANGED <<pi_doc, current_section, pi_rest>>
  /\ UNCHANGED notPI

\* lines 560-581: the biography, and the loop over the headers and the list
\* items is set up
PIBio ==
  /\ pi_pc = "bio"
  /\ pi' = [pi EXCEPT !.bio = pi_bio(find_content(pi_doc)[1])]
  /\ current_section' = None
  /\ pi_rest' = find_all(find_content(pi_doc)[1], {"h2", "h3", "h4", "li"})
  /\ pi_pc' = "loop"
  /\ UNCHANGED pi_doc
  /\ UNCHANGED notPI

\* lines 583-594: one iteration of the loop
PIElement ==
  /\ pi_pc = "loop"
  /\ pi_rest # <<>>
  /\ LET next == pi_step([pi |-> pi, current_section |-> current_section], pi_rest[1])
     IN  /\ pi' = next.pi
         /\ current_section' = next.current_section
  /\ pi_rest' = Tail(pi_rest)
  /\ UNCHANGED <<pi_pc, pi_doc>>
  /\ UNCHANGED notPI

\* line 596: return pi
PIReturn ==
  /\ pi_pc = "loop"
  /\ pi_rest = <<>>
  /\ pi_pc' = "return"
  /\ UNCHANGED <<pi_doc, pi, current_section, pi_rest>>
  /\ UNCHANGED notPI

PINext ==
  \/ PINoContent
  \/ PIPhoto
  \/ PIBio
  \/ PIElement
  \/ PIReturn

(***************************************************************************)
(* extract_research_projects, one element at a time.                       *)
(***************************************************************************)
MaxProjectElements == 3

T_h_projects_zh  == <<"U7814","U7A76","U8A08","U756B">>
T_h_projects_no  == <<"1","."," ","R","e","s","e","a","r","c","h"," ","P","r","o","j","e","c","t","s">>
T_h_numbered_h2  == <<"2","."," ","P","u","b","l","i","c","a","t","i","o","n","s">>
T_h_numbered_h3  == <<"3","."," ","D","e","e","p"," ","l","e","a","r","n","i","n","g">>
T_h_methods      == <<"M","e","t","h","o","d","s">>
T_p_project_zh   == <<"2",".","U86CB","U767D","U8CEA","U9AD4","U5B78">>
T_li_plain       == <<"F","u","n","d","e","d"," ","b","y"," ","N","S","T","C">>
T_li_zh_en       == <<"1","."," ","U751F","U91AB","\n","P","r","o","t","e","o","m","i","c","s">>
T_li_no_zh_en    == <<"2",".","\n","U751F","U91AB","\n","P","r","o","t","e","o","m","i","c","s">>
T_li_leading_0   == <<"0","1","."," ","P","r","o","t","e","o","m","i","c","s">>

\* the elements of the start page that the loop visits
ProjectElements ==
  { Elem("h2", T_h_projects), Elem("h3", T_h_projects_zh), Elem("h1", T_h_projects_no),
    Elem("h1", T_h_other), Elem("h2", T_h_numbered_h2),
    Elem("h3", T_h_methods), Elem("h3", T_h_numbered_h3),
    Elem("li", T_li_project), Elem("p", T_p_project_zh), Elem("li", T_li_plain),
    Elem("li", T_li_zh_en), Elem("li", T_li_no_zh_en), Elem("li", T_li_leading_0) }

ProjectsIdle ==
  /\ projects_pc = "idle"
  /\ projects_seen = <<>>
  /\ projects = <<>>
  /\ in_projects_section = FALSE

\* lines 261-263: extract_research_projects is called
ProjectsInit ==
  /\ projects_pc = "find_content"
  /\ projects_seen = <<>>
  /\ projects = ProjectsStart.projects
  /\ in_projects_section = ProjectsStart.in_projects_section

\* lines 265-267: no content root, return the empty list
ProjectsNoContent ==
  /\ projects_pc = "find_content"
  /\ projects_pc' = "return"
  /\ UNCHANGED <<projects_seen, projects, in_projects_section>>
  /\ UNCHANGED notProjects

\* lines 265-272: the content root is found
ProjectsContent ==
  /\ projects_pc = "find_content"
  /\ projects_pc' = "loop"
  /\ UNCHANGED <<projects_seen, projects, in_projects_section>>
  /\ UNCHANGED notProjects

\* lines 274-318: one iteration of the loop
ProjectsElement(element) ==
  /\ projects_pc = "loop"
  /\ Len(projects_seen) < MaxProjectElements
  /\ projects_seen' = Append(projects_seen, element)
  /\ LET st == projects_step([ projects |-> projects,
                               in_projects_section |-> in_projects_section ], element)
     IN  /\ projects' = st.projects
         /\ in_projects_section' = st.in_projects_section
  /\ UNCHANGED projects_pc
  /\ UNCHANGED notProjects

\* line 320: the loop is over, return projects
ProjectsReturn ==
  /\ projects_pc = "loop"
  /\ projects_pc' = "return"
  /\ UNCHANGED <<projects_seen, projects, in_projects_section>>
  /\ UNCHANGED notProjects

ProjectsNext ==
  \/ ProjectsNoContent
  \/ ProjectsContent
  \/ \E element \in ProjectElements : ProjectsElement(element)
  \/ ProjectsReturn

(***************************************************************************)
(* fetch_page, one request at a time, in successive calls.  The log holds  *)
(* what the calls do to the outside: the requests sent, the sleeps, and    *)
(* the values returned.                                                    *)
(***************************************************************************)
MaxRetries == 3
MaxFetchCalls == 2

\* line 51, in seconds
REQUEST_DELAY == 1

FetchPageIdle ==
  /\ fetch_pc = "idle"
  /\ fetch_retries = 0
  /\ fetch_attempt = 0
  /\ fetch_log = <<>>

\* no call of fetch_page has been made
FetchPageInit ==
  /\ fetch_pc = "ready"
  /\ fetch_retries = 0
  /\ fetch_attempt = 0
  /\ fetch_log = <<>>

\* the calls made so far
FetchCalls == { i \in 1..Len(fetch_log) : fetch_log[i].op = "call" }

\* lines 69-82: fetch_page is called, and range(retries) starts
FetchPageCall(retries) ==
  /\ fetch_pc = "ready"
  /\ Cardinality(FetchCalls) < MaxFetchCalls
  /\ fetch_retries' = retries
  /\ fetch_attempt' = 0
  /\ fetch_log' = Append(fetch_log, [op |-> "call", retries |-> retries])
  /\ fetch_pc' = "loop"
  /\ UNCHANGED notFetchPage

\* lines 83-88: the request succeeds; sleep REQUEST_DELAY, return the document
FetchPageRequestOk ==
  /\ fetch_pc = "loop"
  /\ fetch_attempt < fetch_retries
  /\ fetch_log' = fetch_log \o
       << [op |-> "request", attempt |-> fetch_attempt, ok |-> TRUE],
          [op |-> "sleep", seconds |-> REQUEST_DELAY],
          [op |-> "return", value |-> "document"] >>
  /\ fetch_pc' = "ready"
  /\ UNCHANGED <<fetch_retries, fetch_attempt>>
  /\ UNCHANGED notFetchPage

\* lines 83-85 and 89-92: the request raises requests.RequestException; sleep
\* 2 ** attempt unless this was the last attempt
FetchPageRequestFails ==
  /\ fetch_pc = "loop"
  /\ fetch_attempt < fetch_retries
  /\ fetch_log' = fetch_log \o
       << [op |-> "request", attempt |-> fetch_attempt, ok |-> FALSE] >> \o
       (IF fetch_attempt < fetch_retries - 1
        THEN << [op |-> "sleep", seconds |-> 2 ^ fetch_attempt] >>
        ELSE << >>)
  /\ fetch_attempt' = fetch_attempt + 1
  /\ UNCHANGED <<fetch_pc, fetch_retries>>
  /\ UNCHANGED notFetchPage

\* line 94: range(retries) is exhausted, return None
FetchPageExhausted ==
  /\ fetch_pc = "loop"
  /\ fetch_attempt >= fetch_retries
  /\ fetch_log' = Append(fetch_log, [op |-> "return", value |-> "None"])
  /\ fetch_pc' = "ready"
  /\ UNCHANGED <<fetch_retries, fetch_attempt>>
  /\ UNCHANGED notFetchPage

FetchPageNext ==
  \/ \E retries \in 0..MaxRetries : FetchPageCall(retries)
  \/ FetchPageRequestOk
  \/ FetchPageRequestFails
  \/ FetchPageExhausted

(***************************************************************************)
(* download_images.py: the destination of a manifest entry.                *)
(***************************************************************************)
\* CATEGORY_PATTERNS, in the dict's insertion order; every pattern is a
\* literal, so that re.search is a substring test
CATEGORY_PATTERNS ==
  << <<<<"m","e","m","b","e","r">>, "people">>, <<<<"s","t","u","d","e","n","t">>, "people">>, <<<<"a","l","u","m","n","i">>, "people">>,
     <<<<"p","i">>, "people">>, <<<<"p","h","o","t","o">>, "people">>, <<<<"p","o","r","t","r","a","i","t">>, "people">>,
     <<<<"h","i","g","h","l","i","g","h","t">>, "research">>, <<<<"r","e","s","e","a","r","c","h">>, "research">>,
     <<<<"f","i","g","u","r","e">>, "research">>, <<<<"d","i","a","g","r","a","m">>, "research">>,
     <<<<"c","o","v","e","r">>, "covers">>, <<<<"b","a","n","n","e","r">>, "covers">>, <<<<"h","e","r","o">>, "covers">>,
     <<<<"l","a","b">>, "gallery">>, <<<<"g","r","o","u","p">>, "gallery">>, <<<<"e","v","e","n","t">>, "gallery">>,
     <<<<"U962E","U96EA","U82AC">>, "gallery">> >>

\* the name of a category directory, as a string of the model
CategoryDir(category) ==
  CASE category = "people"   -> <<"p","e","o","p","l","e">>
    [] category = "research" -> <<"r","e","s","e","a","r","c","h">>
    [] category = "covers"   -> <<"c","o","v","e","r","s">>
    [] category = "gallery"  -> <<"g","a","l","l","e","r","y">>
    [] OTHER                 -> <<"m","i","s","c">>

\* lines 59-68
detect_category(filename, url) ==
  With(lower(filename \o <<" ">> \o url), LAMBDA combined :
    With(FirstKeyword(CATEGORY_PATTERNS, combined), LAMBDA k :
      IF k = 0 THEN "misc" ELSE CATEGORY_PATTERNS[k][2]))

\* line 83: re.sub(r'[<>:"/\\|?*]', '_', filename)
ProblemChar(c) == IF c \in {"<", ">", ":", "\"", "/", "\\", "|", "?", "*"} THEN "_" ELSE c

\* line 84 after CollapseSpace: a run of white space becomes one "_"
SpaceChar(c) == IF c = " " THEN "_" ELSE c

SafeExtensions ==
  << <<".","j","p","g">>, <<".","j","p","e","g">>, <<".","p","n","g">>, <<".","g","i","f">>, <<".","w","e","b","p">>, <<".","s","v","g">> >>

\* lines 71-90
sanitize_filename(filename) ==
  With(SplitOn(AfterLast(unquote(filename), <<"/">>), "?")[1], LAMBDA name :
    With(MapStr(SpaceChar, CollapseSpace(MapStr(ProblemChar, name))), LAMBDA safe :
      IF \E k \in 1..Len(SafeExtensions) : endswith(lower(safe), SafeExtensions[k])
      THEN safe
      ELSE safe \o <<".","p","n","g">>))

\* Path.suffix of a file name
PathSuffix(name) ==
  LET i == LastIndex(name, ".")
  IN  IF i > 1 /\ i < Len(name) THEN From(name, i) ELSE <<>>

\* Path.with_suffix(".webp")
with_suffix_webp(path) ==
  SubSeq(path, 1, Len(path) - Len(PathSuffix(path))) \o <<".","w","e","b","p">>

\* line 115: the suffixes for which a WebP copy is made
webp_wanted(path) == lower(PathSuffix(path)) \in { <<".","j","p","g">>, <<".","j","p","e","g">>, <<".","p","n","g">> }

\* str(i) of line 170, for the entries of a short manifest
ImageNumber(i) == <<CHOOSE d \in Digits : DigitVal(d) = i>>

\* lines 165-172: output_path of the i-th entry, below OUTPUT_DIR
output_path_of(img, i) ==
  LET category == detect_category(img.filename, img.url)
      filename == IF img.filename # <<>> THEN sanitize_filename(img.filename)
                  ELSE <<"i","m","a","g","e","_">> \o ImageNumber(i) \o <<".","p","n","g">>
  IN  CategoryDir(category) \o <<"/">> \o filename

(***************************************************************************)
(* download_images.py: main and download_image, one manifest entry at a    *)
(* time.  What the network and the file system answer is chosen by the     *)
(* environment.                                                            *)
(***************************************************************************)
MaxManifest == 2

H_img_group_lab  == <<"/","l","i","b","/","e","x","e","/","f","e","t","c","h",".","p","h","p","?","m","e","d","i","a","=","g","r","o","u","p",":","l","a","b",".","p","n","g">>
H_img_group_lab_ == <<"/","l","i","b","/","e","x","e","/","f","e","t","c","h",".","p","h","p","?","m","e","d","i","a","=","g","r","o","u","p","_","l","a","b",".","p","n","g">>
H_img_lab_webp   == <<"/","l","i","b","/","e","x","e","/","f","e","t","c","h",".","p","h","p","?","m","e","d","i","a","=","l","a","b",".","w","e","b","p">>

\* entries as main of the scraper writes them
ManifestEntries ==
  { image_reference(Img(src, <<>>)) :
      src \in {H_img_lab, H_img_group_lab, H_img_group_lab_, H_img_lab_webp} }

\* the manifests of distinct urls
Manifests ==
  { images \in SeqsUpTo(ManifestEntries, MaxManifest) :
      \A i, j \in 1..Len(images) : images[i].url = images[j].url => i = j }

\* output_path_of, tabulated over the entries and their places
OutputPaths ==
  [img \in ManifestEntries, i \in 1..MaxManifest |-> output_path_of(img, i)]

DownloadIdle ==
  /\ dl_pc = "idle"
  /\ dl_manifest = None
  /\ dl_i = 0
  /\ dl_files = {}
  /\ dl_before = {}
  /\ dl_stats = [downloaded |-> 0, skipped |-> 0, failed |-> 0]
  /\ dl_log = <<>>

\* main is called: the manifest is absent or holds a list, and some of the
\* destinations exist already
DownloadInit ==
  /\ dl_pc = "start"
  /\ dl_manifest \in {None} \cup { Some(images) : images \in Manifests }
  /\ dl_i = 0
  /\ dl_files \in SUBSET (IF dl_manifest = None THEN {}
                          ELSE { OutputPaths[dl_manifest[1][i], i] :
                                   i \in 1..Len(dl_manifest[1]) })
  /\ dl_before = dl_files
  /\ dl_stats = [downloaded |-> 0, skipped |-> 0, failed |-> 0]
  /\ dl_log = <<>>

\* lines 142-145: no manifest
DownloadNoManifest ==
  /\ dl_pc = "start"
  /\ dl_manifest = None
  /\ dl_pc' = "return"
  /\ UNCHANGED <<dl_manifest, dl_i, dl_files, dl_stats, dl_log>>
  /\ UNCHANGED dl_before
  /\ UNCHANGED notDownload

\* lines 147-161: the manifest is loaded
DownloadLoad ==
  /\ dl_pc = "start"
  /\ dl_manifest # None
  /\ dl_pc' = "loop"
  /\ dl_i' = 1
  /\ UNCHANGED <<dl_manifest, dl_files, dl_stats, dl_log>>
  /\ UNCHANGED dl_before
  /\ UNCHANGED notDownload

\* the loop of line 164 is at an entry
DownloadAtEntry == dl_pc = "loop" /\ dl_i <= Len(dl_manifest[1])

\* lines 165-172
output_path == OutputPaths[dl_manifest[1][dl_i], dl_i]

\* lines 174-178: the destination exists
DownloadSkip ==
  /\ DownloadAtEntry
  /\ output_path \in dl_files
  /\ dl_stats' = [dl_stats EXCEPT !.skipped = @ + 1]
  /\ dl_log' = Append(dl_log, [entry |-> dl_i, request |-> "none", result |-> "skipped"])
  /\ dl_i' = dl_i + 1
  /\ UNCHANGED <<dl_pc, dl_manifest, dl_files>>
  /\ UNCHANGED dl_before
  /\ UNCHANGED notDownload

\* lines 99-101 and 130-132, then 185-187: requests.RequestException
DownloadRequestFails ==
  /\ DownloadAtEntry
  /\ output_path \notin dl_files
  /\ dl_stats' = [dl_stats EXCEPT !.failed = @ + 1]
  /\ dl_log' = Append(dl_log, [entry |-> dl_i, request |-> "fails", result |-> "False"])
  /\ dl_i' = dl_i + 1
  /\ UNCHANGED <<dl_pc, dl_manifest, dl_files>>
  /\ UNCHANGED dl_before
  /\ UNCHANGED notDownload

\* lines 104-107, then 185-187: the content type does not start with "image/"
DownloadNotImage ==
  /\ DownloadAtEntry
  /\ output_path \notin dl_files
  /\ dl_stats' = [dl_stats EXCEPT !.failed = @ + 1]
  /\ dl_log' = Append(dl_log, [entry |-> dl_i, request |-> "not image", result |-> "False"])
  /\ dl_i' = dl_i + 1
  /\ UNCHANGED <<dl_pc, dl_manifest, dl_files>>
  /\ UNCHANGED dl_before
  /\ UNCHANGED notDownload

\* lines 110-112: mkdir, open or write raises OSError, which no handler of
\* download_image or main catches; the file exists or not
DownloadWriteFails ==
  /\ DownloadAtEntry
  /\ output_path \notin dl_files
  /\ \E created \in BOOLEAN :
       dl_files' = IF created THEN dl_files \cup {output_path} ELSE dl_files
  /\ dl_log' = Append(dl_log, [entry |-> dl_i, request |-> "image", result |-> "OSError"])
  /\ dl_pc' = "raised"
  /\ UNCHANGED <<dl_manifest, dl_i, dl_stats>>
  /\ UNCHANGED dl_before
  /\ UNCHANGED notDownload

\* lines 110-128, then 183-187: the file is written, and the WebP copy of a
\* jpg, jpeg or png cannot be made
DownloadWebPFails ==
  /\ DownloadAtEntry
  /\ output_path \notin dl_files
  /\ webp_wanted(output_path)
  /\ dl_files' = dl_files \cup {output_path}
  /\ dl_stats' = [dl_stats EXCEPT !.downloaded = @ + 1]
  /\ dl_log' = Append(dl_log, [entry |-> dl_i, request |-> "image", result |-> "True"])
  /\ dl_i' = dl_i + 1
  /\ UNCHANGED <<dl_pc, dl_manifest>>
  /\ UNCHANGED dl_before
  /\ UNCHANGED notDownload

\* lines 110-128, then 183-187: the file and, for a jpg, jpeg or png, its WebP
\* copy are written
DownloadOk ==
  /\ DownloadAtEntry
  /\ output_path \notin dl_files
  /\ dl_files' = dl_files \cup {output_path}
       \cup (IF webp_wanted(output_path) THEN {with_suffix_webp(output_path)} ELSE {})
  /\ dl_stats' = [dl_stats EXCEPT !.downloaded = @ + 1]
  /\ dl_log' = Append(dl_log, [entry |-> dl_i, request |-> "image", result |-> "True"])
  /\ dl_i' = dl_i + 1
  /\ UNCHANGED <<dl_pc, dl_manifest>>
  /\ UNCHANGED dl_before
  /\ UNCHANGED notDownload

\* lines 189-203: the loop is over
DownloadReturn ==
  /\ dl_pc = "loop"
  /\ dl_i > Len(dl_manifest[1])
  /\ dl_pc' = "return"
  /\ UNCHANGED <<dl_manifest, dl_i, dl_files, dl_stats, dl_log>>
  /\ UNCHANGED dl_before
  /\ UNCHANGED notDownload

DownloadNext ==
  \/ DownloadNoManifest
  \/ DownloadLoad
  \/ DownloadSkip
  \/ DownloadRequestFails
  \/ DownloadNotImage
  \/ DownloadWriteFails
  \/ DownloadWebPFails
  \/ DownloadOk
  \/ DownloadReturn

(***************************************************************************)
(* extract_people of src/juanlab-astro on one header and one element that  *)
(* may hold a bare name.                                                   *)
(***************************************************************************)
T_bare_1    == <<"A">>
T_bare_2    == <<"A","l">>
T_bare_pad  == <<" "," ","A","l"," ">>
T_bare_zh   == <<"U738B","U660E">>
T_bare_49   == <<"V","i","s","i","t","i","n","g"," ","s","c","h","o","l","a","r"," ","f","r","o","m"," ","A","c","a","d","e","m","i","a"," ","S","i","n","i","c","a",","," ","T","a","i","p","e","i"," ","1","1","5">>
T_bare_50   == <<"V","i","s","i","t","i","n","g"," ","s","c","h","o","l","a","r"," ","f","r","o","m"," ","A","c","a","d","e","m","i","a"," ","S","i","n","i","c","a",","," ","T","a","i","p","e","i"," ","1","1","5",".">>
T_bare_open == <<"T","o","m"," ","(","2","1","-","L","S">>

BareHeaders == { Elem("h3", T_h_phd), Elem("h2", T_h_visiting), Elem("h1", T_h_other) }
BareTexts ==
  { T_bare_1, T_bare_2, T_bare_pad, T_bare_zh, T_li_bare, T_bare_49, T_bare_50,
    T_bare_open, T_li_member }

\* a header, and a li, p or tr with its text and with the src of its img
BareInputs ==
  [ header : BareHeaders, name : {"li", "p", "tr"}, text : BareTexts,
    img : {None, Some(H_photo), Some(<<>>)} ]

BareElementOf(in) ==
  [name |-> in.name, text |-> in.text, img |-> in.img, hrefs |-> <<>>, alt |-> <<>>]

BareIdle == bare_in = None

BareInit ==
  /\ bare_in \in { Some(in) : in \in BareInputs }
  /\ people_pc = "header"
  /\ people_seen = <<>>
  /\ people = PeopleStart.people
  /\ current_category = PeopleStart.current_category
  /\ is_alumni_section = PeopleStart.is_alumni_section
  /\ scripts_st = ScriptsStart

\* lines 372-403: the loop is at the header
BareHeader ==
  /\ people_pc = "header"
  /\ people_seen' = Append(people_seen, bare_in[1].header)
  /\ SetPeopleState(people_step(PeopleState, bare_in[1].header))
  /\ people_pc' = "element"
  /\ UNCHANGED <<bare_in, scripts_st>>
  /\ UNCHANGED notBare

\* lines 372-378 and 409-522: the loop is at the li, p or tr, and returns
BareElement ==
  /\ people_pc = "element"
  /\ people_seen' = Append(people_seen, BareElementOf(bare_in[1]))
  /\ SetPeopleState(people_step(PeopleState, BareElementOf(bare_in[1])))
  /\ people_pc' = "return"
  /\ UNCHANGED <<bare_in, scripts_st>>
  /\ UNCHANGED notBare

BareNext == BareHeader \/ BareElement

(***************************************************************************)
(* extract_image_urls on the img elements of a page.                       *)
(***************************************************************************)
MaxImgElements == 2

H_img_lab_w    == <<"/","l","i","b","/","e","x","e","/","f","e","t","c","h",".","p","h","p","?","m","e","d","i","a","=","l","a","b",".","p","n","g","&","w","=","1","0","0">>
H_img_w_photo  == <<"/","l","i","b","/","e","x","e","/","f","e","t","c","h",".","p","h","p","?","w","=","1","0","0","&","m","e","d","i","a","=","l","a","b","%","3","A","p","h","o","t","o",".","j","p","g">>
H_img_wang_w   == <<"_","m","e","d","i","a","/","m","e","m","b","e","r","s","/","w","a","n","g",".","j","p","g","?","w","=","2","0","0">>
H_img_abs_gif  == <<"h","t","t","p","s",":","/","/","x",".","o","r","g","/","i","m","g","/","a","%","2","0","b",".","g","i","f">>
H_img_svg      == <<"l","o","g","o",".","s","v","g">>

\* the img elements of the page, with and without alt text
ImgElements ==
  { Img(src, alt) :
      src \in {H_img_lab, H_img_lab_w, H_img_w_photo, H_img_wang_w, H_img_abs_gif, H_img_svg},
      alt \in {A_lab, <<>>} }

ImagesIdle ==
  /\ images_pc = "idle"
  /\ images_soup = [root |-> FALSE, elements |-> <<>>]
  /\ images_out = <<>>

\* line 97: extract_image_urls is called on a parsed page
ImagesInit ==
  /\ images_pc = "call"
  /\ images_soup \in [root : BOOLEAN, elements : SeqsUpTo(ImgElements, MaxImgElements)]
  /\ images_out = <<>>

\* lines 99-121
ImagesExtract ==
  /\ images_pc = "call"
  /\ images_out' = extract_image_urls(images_soup)
  /\ images_pc' = "return"
  /\ UNCHANGED images_soup
  /\ UNCHANGED notImages

ImagesNext == ImagesExtract

(***************************************************************************)
(* The loops of the four extractors that keep a section or category, on    *)
(* one page: each records its local state before the first element and     *)
(* after every element that it visits.                                     *)
(***************************************************************************)
MaxStatefulElements == 3

T_p_bio == <<"P","r","o","f","e","s","s","o","r"," ","J","u","a","n"," ","s","t","u","d","i","e","s"," ","e","c","t","o","p","i","c"," ","A","T","P"," ","s","y","n","t","h","a","s","e"," ","a","n","d"," ","s","y","s","t","e","m","s"," ","b","i","o","l","o","g","y"," ","o","f"," ","c","a","n","c","e","r"," ","a","t"," ","N","a","t","i","o","n","a","l"," ","T","a","i","w","a","n"," ","U","n","i","v","e","r","s","i","t","y",".">>

\* headers that set the state of one extractor each, and elements that the
\* extractors read
StatefulElements ==
  { Elem("h3", T_h_phd), Elem("h2", T_h_atp), Elem("h2", T_h_projects),
    Elem("h2", T_h_education),
    Elem("li", T_li_project), Elem("p", T_p_bio), ElemImg("a", <<>>, H_img_highlight) }

StatefulIdle ==
  /\ stateful_soup = [root |-> FALSE, elements |-> <<>>]
  /\ traces = [people |-> <<>>, highlights |-> <<>>, projects |-> <<>>, pi |-> <<>>]

\* a parsed page with a content root, on which no extractor has run
StatefulInit ==
  /\ stateful_soup \in [root : {TRUE}, elements : SeqsUpTo(StatefulElements, MaxStatefulElements)]
  /\ traces = [people |-> <<>>, highlights |-> <<>>, projects |-> <<>>, pi |-> <<>>]

\* the elements that each loop visits
PeopleVisited     == find_all(find_content(stateful_soup)[1], HeaderNames4 \cup {"li", "p", "tr"})
HighlightsVisited == find_all(find_content(stateful_soup)[1], HeaderNames3 \cup {"p", "img", "a"})
ProjectsLoopVisited  == find_all(find_content(stateful_soup)[1], HeaderNames3 \cup {"p", "li"})
PIVisited         == find_all(find_content(stateful_soup)[1], {"h2", "h3", "h4", "li"})

\* lines 342-522: the loop of extract_people
StatefulPeople ==
  /\ traces.people = <<>>
  /\ traces' = [traces EXCEPT !.people =
       [k \in 1..(Len(PeopleVisited) + 1) |->
          people_loop(PeopleStart, SubSeq(PeopleVisited, 1, k - 1))]]
  /\ UNCHANGED stateful_soup
  /\ UNCHANGED notStateful

\* lines 217-253: the loop of extract_research_highlights
StatefulHighlights ==
  /\ traces.highlights = <<>>
  /\ traces' = [traces EXCEPT !.highlights =
       [k \in 1..(Len(HighlightsVisited) + 1) |->
          highlights_loop(HighlightsStart, SubSeq(HighlightsVisited, 1, k - 1))]]
  /\ UNCHANGED stateful_soup
  /\ UNCHANGED notStateful

\* lines 272-318: the loop of extract_research_projects
StatefulProjects ==
  /\ traces.projects = <<>>
  /\ traces' = [traces EXCEPT !.projects =
       [k \in 1..(Len(ProjectsLoopVisited) + 1) |->
          projects_loop(ProjectsStart, SubSeq(ProjectsLoopVisited, 1, k - 1))]]
  /\ UNCHANGED stateful_soup
  /\ UNCHANGED notStateful

\* lines 552-594: the photo and the bio, then the loop of extract_pi_info
StatefulPI ==
  /\ traces.pi = <<>>
  /\ traces' = [traces EXCEPT !.pi =
       [k \in 1..(Len(PIVisited) + 1) |->
          pi_loop([PIStart EXCEPT
                     !.pi.photo = pi_photo(find_content(stateful_soup)[1]),
                     !.pi.bio = pi_bio(find_content(stateful_soup)[1])],
                  SubSeq(PIVisited, 1, k - 1))]]
  /\ UNCHANGED stateful_soup
  /\ UNCHANGED notStateful

StatefulNext ==
  \/ StatefulPeople
  \/ StatefulHighlights
  \/ StatefulProjects
  \/ StatefulPI

(***************************************************************************)
(* extract_people, both copies, on one header: the text of the header is a *)
(* keyword of category_keywords as the table writes it, or a heading of    *)
(* the members page.                                                       *)
(***************************************************************************)
T_h_postdoctoral == <<"P","o","s","t","d","o","c","t","o","r","a","l"," ","F","e","l","l","o","w","s">>

KeywordHeaderTexts ==
  { category_keywords[k][1] : k \in 1..Len(category_keywords) }
    \cup { T_h_phd, T_h_master, T_h_postdoc, T_h_postdoctoral, T_h_other }

KeywordInputs == [ name : HeaderNames4, text : KeywordHeaderTexts ]

KeywordIdle == header_in = None

KeywordInit ==
  /\ header_in \in { Some(in) : in \in KeywordInputs }
  /\ people_pc = "header"
  /\ people_seen = <<>>
  /\ people = PeopleStart.people
  /\ current_category = PeopleStart.current_category
  /\ is_alumni_section = PeopleStart.is_alumni_section
  /\ scripts_st = ScriptsStart

\* lines 372-403, and lines 372-381 of src/scripts: both copies iterate
\* over the header
KeywordHeader ==
  LET header == Elem(header_in[1].name, header_in[1].text)
  IN  /\ people_pc = "header"
      /\ people_seen' = Append(people_seen, header)
      /\ SetPeopleState(people_step(PeopleState, header))
      /\ scripts_st' = scripts_people_step(scripts_st, header)
      /\ people_pc' = "return"
      /\ UNCHANGED header_in
      /\ UNCHANGED notKeyword

KeywordNext == KeywordHeader

(***************************************************************************)
(* The members page with one img: extract_image_urls records the img in    *)
(* the manifest, extract_people records it as the photo of the member in   *)
(* whose list item it stands.                                              *)
(***************************************************************************)
ResolvePrefixes ==
  { <<>>, <<"/">>, <<"_","m","e","d","i","a","/">>, <<"/","_","m","e","d","i","a","/">>, <<"m","e","m","b","e","r","s","/","p","h","o","t","o","s","/">>,
    <<"l","i","b","/","e","x","e","/","f","e","t","c","h",".","p","h","p","?","m","e","d","i","a","=">>, <<"/","l","i","b","/","e","x","e","/","f","e","t","c","h",".","p","h","p","?","m","e","d","i","a","=">>,
    <<"h","t","t","p","s",":","/","/","s","b","l",".","c","s","i","e",".","o","r","g","/","J","u","a","n","L","a","b","/","_","m","e","d","i","a","/">> }
ResolveNames == { <<"w","a","n","g">>, <<"l","a","b">> }
ResolveExtensions == { <<".","j","p","g">>, <<".","j","p","e","g">>, <<".","p","n","g">>, <<".","g","i","f">>, <<".","w","e","b","p">>, <<".","s","v","g">> }

\* the src attributes of the img
ResolveSrcs ==
  { prefix \o stem \o ext :
      prefix \in ResolvePrefixes, stem \in ResolveNames, ext \in ResolveExtensions }

\* the members page: a header, the list item of a member with its img, and
\* the img itself as soup.find_all("img") finds it
ResolvePage(img_src) ==
  [ root |-> TRUE,
    elements |-> << Elem("h3", T_h_phd), ElemImg("li", T_li_member, img_src),
                    Img(img_src, A_lab) >> ]

ResolveIdle ==
  /\ resolve_src = None
  /\ resolve_out = None

ResolveInit ==
  /\ resolve_src \in { Some(s) : s \in ResolveSrcs }
  /\ resolve_out = None

\* main, lines 659-662: extract_people and extract_image_urls on the page
ResolveExtract ==
  /\ resolve_out = None
  /\ resolve_out' = Some(
       [ people   |-> extract_people(ResolvePage(resolve_src[1])),
         manifest |-> extract_image_urls(ResolvePage(resolve_src[1])) ])
  /\ UNCHANGED resolve_src
  /\ UNCHANGED notResolve

ResolveNext == ResolveExtract

(***************************************************************************)
(* extract_people, both copies side by side, one element at a time, on a   *)
(* members page of headers without "alumni" and of list items that match   *)
(* the member pattern of src/scripts.                                      *)
(***************************************************************************)
MaxCopiesElements == 3

H_mailto_wang == <<"m","a","i","l","t","o",":","w","a","n","g","@","n","t","u",".","e","d","u",".","t","w">>
T_li_year4    == <<"T","o","m"," ","(","2","0","2","1",")">>
T_li_no_dept  == <<"T","o","m"," ","L","e","e"," ","(","2","1","-",")">>
T_li_dept_    == <<"T","o","m","(","5","0","B","_","2","1",")","g","e","n","o","m","i","c","s">>
T_li_strict_spaced == <<"U674E","U5927","U83EF"," "," "," ","D","a"," ","H","u","a"," ","L","e","e"," "," ","(","9","9","-"," ","L","S",")"," "," ","g","e","n","o","m","i","c","s"," ",",",","," ","s","y","s","t","e","m","s"," ","b","i","o","l","o","g","y"," ">>

CopiesHeaders ==
  { Elem("h3", T_h_phd), Elem("h2", T_h_visiting), Elem("h2", T_h_former),
    Elem("h1", T_h_other) }

\* list items '<CJK name> <Latin tokens> (YY-DEPT) tag1, tag2', one of them
\* with an img and a mailto link, and list items at the edges of the pattern
CopiesLines ==
  { Elem("li", MemberLineText([zh |-> N_wang, en |-> <<W_Wang, W_Ming>>, yy |-> yy,
                                dept |-> dept, tags |-> <<G_systems, G_genomics>>,
                                sep |-> <<",", " ">>])) :
      yy \in { <<"2","1">>, <<"5","0">> }, dept \in { D_LS, D_B21 } }
    \cup { [ name |-> "li", text |-> T_li_member, img |-> Some(H_photo),
             hrefs |-> <<Some(H_paper), Some(H_mailto_wang)>>, alt |-> <<>> ],
           Elem("li", T_li_year4), Elem("li", T_li_no_dept),
           Elem("li", T_li_strict_spaced), Elem("li", T_li_dept_) }

CopiesElements == CopiesHeaders \cup CopiesLines

\* both copies are called on the page
CopiesInit ==
  /\ people_pc = "loop"
  /\ people_seen = <<>>
  /\ people = PeopleStart.people
  /\ current_category = PeopleStart.current_category
  /\ is_alumni_section = PeopleStart.is_alumni_section
  /\ scripts_st = ScriptsStart

\* lines 372-522, and lines 372-424 of src/scripts: both copies iterate
\* over the next element
CopiesElement(element) ==
  /\ people_pc = "loop"
  /\ Len(people_seen) < MaxCopiesElements
  /\ people_seen' = Append(people_seen, element)
  /\ SetPeopleState(people_step(PeopleState, element))
  /\ scripts_st' = scripts_people_step(scripts_st, element)
  /\ UNCHANGED people_pc
  /\ UNCHANGED notCopies

\* line 524, and line 426 of src/scripts: both copies return people
CopiesReturn ==
  /\ people_pc = "loop"
  /\ people_pc' = "return"
  /\ UNCHANGED <<people_seen, people, current_category, is_alumni_section, scripts_st>>
  /\ UNCHANGED notCopies

CopiesNext ==
  \/ \E element \in CopiesElements : CopiesElement(element)
  \/ CopiesReturn

(***************************************************************************)
(* Specifications.                                                         *)
(***************************************************************************)
\* extract_news on the list items of a document
SpecNewsInit ==
  NewsInit /\ PeopleIdle /\ HighlightsIdle /\ MemberIdle /\ YearIdle /\ MainIdle /\ PIIdle /\ ProjectsIdle /\ FetchPageIdle /\ DownloadIdle /\ BareIdle /\ ImagesIdle /\ StatefulIdle /\ KeywordIdle /\ ResolveIdle

SpecNews == SpecNewsInit /\ [][NewsNext]_vars

\* extract_people of src/juanlab-astro on the elements of a document
SpecPeopleInit ==
  NewsIdle /\ PeopleInit /\ HighlightsIdle /\ MemberIdle /\ YearIdle /\ MainIdle /\ PIIdle /\ ProjectsIdle /\ FetchPageIdle /\ DownloadIdle /\ BareIdle /\ ImagesIdle /\ StatefulIdle /\ KeywordIdle /\ ResolveIdle

SpecPeople == SpecPeopleInit /\ [][PeopleNext]_vars

\* extract_research_highlights on the elements of a document
SpecHighlightsInit ==
  NewsIdle /\ PeopleIdle /\ HighlightsInit /\ MemberIdle /\ YearIdle /\ MainIdle /\ PIIdle /\ ProjectsIdle /\ FetchPageIdle /\ DownloadIdle /\ BareIdle /\ ImagesIdle /\ StatefulIdle /\ KeywordIdle /\ ResolveIdle

SpecHighlights == SpecHighlightsInit /\ [][HighlightsNext]_vars

\* both copies of extract_people on a header and a member line
SpecMemberInit ==
  NewsIdle /\ MemberInit /\ HighlightsIdle /\ YearIdle /\ MainIdle /\ PIIdle /\ ProjectsIdle /\ FetchPageIdle /\ DownloadIdle /\ BareIdle /\ ImagesIdle /\ StatefulIdle /\ KeywordIdle /\ ResolveIdle

SpecMember == SpecMemberInit /\ [][MemberNext]_vars

\* the extractors on a two-digit year token
SpecYearInit ==
  NewsIdle /\ PeopleIdle /\ HighlightsIdle /\ MemberIdle /\ YearInit /\ MainIdle /\ PIIdle /\ ProjectsIdle /\ FetchPageIdle /\ DownloadIdle /\ BareIdle /\ ImagesIdle /\ StatefulIdle /\ KeywordIdle /\ ResolveIdle

SpecYear == SpecYearInit /\ [][YearNext]_vars

\* a run of main
SpecInit ==
  NewsIdle /\ PeopleIdle /\ HighlightsIdle /\ MemberIdle /\ YearIdle /\ MainInit /\ PIIdle /\ ProjectsIdle /\ FetchPageIdle /\ DownloadIdle /\ BareIdle /\ ImagesIdle /\ StatefulIdle /\ KeywordIdle /\ ResolveIdle

Spec == SpecInit /\ [][MainNext]_vars

\* extract_pi_info on a page of up to MaxPIElements elements
SpecPIInit ==
  NewsIdle /\ PeopleIdle /\ HighlightsIdle /\ MemberIdle /\ YearIdle /\ MainIdle /\ PIInit /\ ProjectsIdle /\ FetchPageIdle /\ DownloadIdle /\ BareIdle /\ ImagesIdle /\ StatefulIdle /\ KeywordIdle /\ ResolveIdle

SpecPI == SpecPIInit /\ [][PINext]_vars

\* extract_research_projects on up to MaxProjectElements elements
SpecProjectsInit ==
  NewsIdle /\ PeopleIdle /\ HighlightsIdle /\ MemberIdle /\ YearIdle /\ MainIdle /\ PIIdle /\ ProjectsInit /\ FetchPageIdle /\ DownloadIdle /\ BareIdle /\ ImagesIdle /\ StatefulIdle /\ KeywordIdle /\ ResolveIdle

SpecProjects == SpecProjectsInit /\ [][ProjectsNext]_vars

\* successive calls of fetch_page
SpecFetchInit ==
  NewsIdle /\ PeopleIdle /\ HighlightsIdle /\ MemberIdle /\ YearIdle /\ MainIdle /\ PIIdle /\ ProjectsIdle /\ FetchPageInit /\ DownloadIdle /\ BareIdle /\ ImagesIdle /\ StatefulIdle /\ KeywordIdle /\ ResolveIdle

SpecFetch == SpecFetchInit /\ [][FetchPageNext]_vars

\* a run of the image downloader on a manifest of up to MaxManifest entries
SpecDownloadInit ==
  NewsIdle /\ PeopleIdle /\ HighlightsIdle /\ MemberIdle /\ YearIdle /\ MainIdle /\ PIIdle /\ ProjectsIdle /\ FetchPageIdle /\ DownloadInit /\ BareIdle /\ ImagesIdle /\ StatefulIdle /\ KeywordIdle /\ ResolveIdle

SpecDownload == SpecDownloadInit /\ [][DownloadNext]_vars

\* extract_people on a header and one element that may hold a bare name
SpecBareInit ==
  NewsIdle /\ HighlightsIdle /\ MemberIdle /\ YearIdle /\ MainIdle /\ PIIdle /\ ProjectsIdle /\ FetchPageIdle /\ DownloadIdle /\ BareInit /\ ImagesIdle /\ StatefulIdle /\ KeywordIdle /\ ResolveIdle

SpecBare == SpecBareInit /\ [][BareNext]_vars

\* extract_image_urls on a page of up to MaxImgElements img elements
SpecImagesInit ==
  NewsIdle /\ PeopleIdle /\ HighlightsIdle /\ MemberIdle /\ YearIdle /\ MainIdle /\ PIIdle /\ ProjectsIdle /\ FetchPageIdle /\ DownloadIdle /\ BareIdle /\ ImagesInit /\ StatefulIdle /\ KeywordIdle /\ ResolveIdle

SpecImages == SpecImagesInit /\ [][ImagesNext]_vars

\* the loops of the four extractors on a page of up to MaxStatefulElements elements
SpecStatefulInit ==
  NewsIdle /\ PeopleIdle /\ HighlightsIdle /\ MemberIdle /\ YearIdle /\ MainIdle /\ PIIdle /\ ProjectsIdle /\ FetchPageIdle /\ DownloadIdle /\ BareIdle /\ ImagesIdle /\ StatefulInit /\ KeywordIdle /\ ResolveIdle

SpecStateful == SpecStatefulInit /\ [][StatefulNext]_vars

\* extract_people, both copies, on one header
SpecKeywordInit ==
  NewsIdle /\ HighlightsIdle /\ MemberIdle /\ YearIdle /\ MainIdle /\ PIIdle /\ ProjectsIdle /\ FetchPageIdle /\ DownloadIdle /\ BareIdle /\ ImagesIdle /\ StatefulIdle /\ KeywordInit /\ ResolveIdle

SpecKeyword == SpecKeywordInit /\ [][KeywordNext]_vars

\* extract_people and extract_image_urls on a members page with one img
SpecResolveInit ==
  NewsIdle /\ PeopleIdle /\ HighlightsIdle /\ MemberIdle /\ YearIdle /\ MainIdle /\ PIIdle /\ ProjectsIdle /\ FetchPageIdle /\ DownloadIdle /\ BareIdle /\ ImagesIdle /\ StatefulIdle /\ KeywordIdle /\ ResolveInit

SpecResolve == SpecResolveInit /\ [][ResolveNext]_vars

\* extract_people, both copies side by side
SpecCopiesInit ==
  NewsIdle /\ HighlightsIdle /\ MemberIdle /\ YearIdle /\ MainIdle /\ PIIdle /\ ProjectsIdle /\ FetchPageIdle /\ DownloadIdle /\ BareIdle /\ ImagesIdle /\ StatefulIdle /\ KeywordIdle /\ ResolveIdle /\ CopiesInit

SpecCopies == SpecCopiesInit /\ [][CopiesNext]_vars

(***************************************************************************)
(* Properties of extract_news (specification SpecNews).                    *)
(***************************************************************************)
NewsTitles == [i \in 1..Len(news_items) |-> news_items[i].title]

\* the three list items "24.03 A", "24.01 B", "23.12 C" in some source order
NewsIsABC ==
  /\ Len(news_lis) = 3
  /\ {news_lis[i] : i \in 1..3} =
       {Elem("li", T_news_A), Elem("li", T_news_B), Elem("li", T_news_C)}

\* C4: the list returned by extract_news is sorted by (year, month) in
\* descending order: no item sorts strictly before its predecessor; and the
\* list items "24.03 A", "24.01 B", "23.12 C", in any source order, come out
\* in the order A, B, C.
C4_NewsSortedDescending ==
  news_pc = "return" =>
    /\ \A i \in 1..(Len(news_items) - 1) :
         ~NewsBefore(news_items[i + 1], news_items[i])
    /\ NewsIsABC => NewsTitles = << <<"A">>, <<"B">>, <<"C">> >>

\* extract_news has returned on the source order C, A, B
C4_Witness ==
  /\ news_pc = "return"
  /\ news_lis = <<Elem("li", T_news_C), Elem("li", T_news_A), Elem("li", T_news_B)>>
  /\ NewsTitles = << <<"A">>, <<"B">>, <<"C">> >>

\* the two-digit decimal numeral of n
TwoDigits(n) == <<Digits[(n \div 10) + 1], Digits[(n % 10) + 1]>>

\* C6: every news item that extract_news emits has a month in 1..12, and
\* its date is its year, "-", and its month in two digits.
C6_MonthInRange ==
  \A i \in 1..Len(news_items) :
    /\ news_items[i].month \in 1..12
    /\ news_items[i].date = str(news_items[i].year) \o <<"-">> \o TwoDigits(news_items[i].month)

(***************************************************************************)
(* Properties of extract_research_highlights (specification                *)
(* SpecHighlights).                                                        *)
(***************************************************************************)
\* a header whose text holds a topic marker and not "Research Highlight"
IsQualifyingHeader(element) ==
  /\ element.name \in HeaderNames3
  /\ ContainsAny(clean_text(element.text), highlight_markers)
  /\ ~Contains(clean_text(element.text), S_Research_Highlight)

QualifyingHeaders == SelectSeq(hl_seen, IsQualifyingHeader)

\* C2: the list returned by extract_research_highlights holds one highlight
\* per qualifying header, in source order (each qualifying header closes the
\* open highlight and opens its own; the last one is appended at the end).
C2_OneHighlightPerHeader ==
  hl_pc = "return" =>
    /\ Len(highlights) = Len(QualifyingHeaders)
    /\ \A i \in 1..Len(highlights) :
         highlights[i].id = slug(clean_text(QualifyingHeaders[i].text))

(***************************************************************************)
(* Properties of extract_people of src/juanlab-astro (specification        *)
(* SpecPeople).                                                            *)
(***************************************************************************)
StandardRoles == {"phd_students", "masters_students", "undergrads", "postdocs"}

HeaderLower(element) == lower(clean_text(element.text))

\* a header whose lower-cased text holds the keyword
IsHeaderWith(element, keyword) ==
  element.name \in HeaderNames4 /\ Contains(HeaderLower(element), keyword)

\* a header that matches a keyword of a category outside the standard roles
IsOtherRoleHeader(element) ==
  /\ element.name \in HeaderNames4
  /\ ~Contains(HeaderLower(element), S_alumni)
  /\ FirstKeyword(category_keywords, HeaderLower(element)) # 0
  /\ category_keywords[FirstKeyword(category_keywords, HeaderLower(element))][2]
       \notin StandardRoles

\* a header holding "alumni", later a header holding "phd", and after that
\* no header of another role
AlumniThenPhD(seen) ==
  \E i, j \in 1..Len(seen) :
    /\ i < j
    /\ IsHeaderWith(seen[i], S_alumni)
    /\ IsHeaderWith(seen[j], <<"p","h","d">>)
    /\ \A k \in (j + 1)..Len(seen) : ~IsOtherRoleHeader(seen[k])

\* C3: once a header holding "alumni" has been followed by a header holding
\* "PhD", and until a header of a non-standard role appears, the category is
\* alumni, and each further element leaves every list but alumni as it is and
\* appends the person parsed from it, if any, to alumni.
C3_AlumniSectionKeepsPhDInAlumni ==
  [][ (people_pc = "loop" /\ people_pc' = "loop" /\ AlumniThenPhD(people_seen))
        => /\ current_category = Some("alumni")
           /\ \A c \in DOMAIN people \ {"alumni"} : people'[c] = people[c]
           /\ LET element == people_seen'[Len(people_seen')]
                  text    == clean_text(element.text)
                  parsed  == IF element.name \in {"li", "p", "tr"} /\ Len(text) >= 2
                             THEN people_member(element, text) ELSE None
              IN  people'.alumni = people.alumni \o parsed ]_vars

\* after the headers "Alumni" and "PhD Students", the member line has been
\* filed under alumni
C3_Witness ==
  /\ people_seen = <<Elem("h2", T_h_alumni), Elem("h3", T_h_phd), Elem("li", T_li_member)>>
  /\ Len(people.alumni) = 1
  /\ people.alumni[1].name_en = <<"W","a","n","g"," ","M","i","n","g">>
  /\ people.phd_students = <<>>

(***************************************************************************)
(* Properties of a run of main (specification Spec).                       *)
(***************************************************************************)
\* C1: a run in which every fetch returned None ends with all six outputs
\* written, each with its topic's empty or default structure.
C1_AllOutputsWhenAllFetchesFail ==
  (main_pc = "done" /\ start_soup = None /\ members_soup = None /\ pi_soup = None)
    => /\ files["news.json"] = Some(<<>>)
       /\ files["research.json"] = Some(<<>>)
       /\ files["projects.json"] = Some(<<>>)
       /\ files["people.json"] = Some(EmptyPeople)
       /\ files["pi.json"] = Some(DefaultPI)
       /\ files["images_manifest.json"] = Some(<<>>)

\* the indices of all_images at which a url occurs for the first time
FirstSeen ==
  { i \in 1..Len(all_images) :
      \A j \in 1..(i - 1) : all_images[j].url # all_images[i].url }

\* the k-th of them
FirstSeenAt(k) ==
  CHOOSE i \in FirstSeen : Cardinality({ j \in FirstSeen : j <= i }) = k

\* C7: the manifest written by main (a) holds no url twice, (b) holds every
\* url of the accumulated references exactly once, (c) is the subsequence of
\* the accumulated references made of the first occurrence of each url, in
\* order; urls that differ in a character are different entries.
C7_ManifestFirstSeenUnique ==
  files["images_manifest.json"] # None =>
    LET manifest == files["images_manifest.json"][1]
    IN  /\ \A k, l \in 1..Len(manifest) : manifest[k].url = manifest[l].url => k = l
        /\ \A i \in 1..Len(all_images) :
             Cardinality({ k \in 1..Len(manifest) : manifest[k].url = all_images[i].url }) = 1
        /\ Len(manifest) = Cardinality(FirstSeen)
        /\ \A k \in 1..Len(manifest) : manifest[k] = all_images[FirstSeenAt(k)]

\* a url seen twice, with two alt texts, and a url that differs from it in the
\* case of one letter: the manifest keeps the first entry of the one and the
\* other
C7_Witness ==
  /\ main_pc = "done"
  /\ Len(all_images) = 3
  /\ all_images[1].url = all_images[2].url
  /\ all_images[1].alt # all_images[2].alt
  /\ all_images[3].url # all_images[1].url
  /\ lower(all_images[3].url) = lower(all_images[1].url)
  /\ files["images_manifest.json"] = Some(<<all_images[1], all_images[3]>>)

\* the run is past the step that handles the page
PastStart   == main_pc \in {"fetch_members", "members", "fetch_pi", "pi", "manifest", "done"}
PastMembers == main_pc \in {"fetch_pi", "pi", "manifest", "done"}
PastPI      == main_pc \in {"manifest", "done"}

RosterKeys ==
  {"phd_students", "masters_students", "undergrads", "visiting", "alumni", "postdocs"}

\* the identity fields of the PI profile
PIIdentityKeys ==
  {"name_zh", "name_en", "title", "department", "institution", "email", "email2",
   "phone", "fax", "address"}

\* C9: on a document without content root each of the five extractors returns
\* its default: the empty list for news, highlights and projects, the six
\* empty lists for people, and for the PI the constant identity fields with
\* no photo, an empty bio and four empty lists.
C9_NoContentRootGivesDefaults ==
  /\ (PastStart /\ start_soup # None /\ ~start_soup[1].root)
       => /\ files["news.json"] = Some(<<>>)
          /\ files["research.json"] = Some(<<>>)
          /\ files["projects.json"] = Some(<<>>)
  /\ (PastMembers /\ members_soup # None /\ ~members_soup[1].root)
       => /\ files["people.json"] # None
          /\ DOMAIN files["people.json"][1] = RosterKeys
          /\ \A c \in RosterKeys : files["people.json"][1][c] = <<>>
  /\ (PastPI /\ pi_soup # None /\ ~pi_soup[1].root)
       => /\ files["pi.json"] # None
          /\ \A k \in PIIdentityKeys : files["pi.json"][1][k] = DefaultPI[k]
          /\ files["pi.json"][1].photo = None
          /\ files["pi.json"][1].bio = <<>>
          /\ \A k \in {"education", "positions", "awards", "societies"} :
               files["pi.json"][1][k] = <<>>
          /\ DOMAIN files["pi.json"][1] =
               PIIdentityKeys \cup {"photo", "bio", "education", "positions", "awards", "societies"}

\* the three pages were fetched, none has a content root, each has elements,
\* and the five outputs hold the defaults
C9_Witness ==
  /\ main_pc = "done"
  /\ start_soup # None /\ ~start_soup[1].root /\ start_soup[1].elements # <<>>
  /\ members_soup # None /\ ~members_soup[1].root /\ members_soup[1].elements # <<>>
  /\ pi_soup # None /\ ~pi_soup[1].root /\ pi_soup[1].elements # <<>>
  /\ files["news.json"] = Some(<<>>)
  /\ files["research.json"] = Some(<<>>)
  /\ files["projects.json"] = Some(<<>>)
  /\ files["people.json"] = Some(EmptyPeople)
  /\ files["pi.json"] = Some(DefaultPI)

TokenValue(token) == 10 * DigitVal(token[1]) + DigitVal(token[2])

\* 2000 + Y below the threshold 50, 1900 + Y from it on
InferredYear(Y) == IF Y < 50 THEN 2000 + Y ELSE 1900 + Y

\* the year each extraction made of the token
YearOfNews     == year_out[1].news[1].year
YearOfPeople   == year_out[1].people.phd_students[1].year_start
YearOfScripts  == year_out[1].scripts.phd_students[1].year_start
NumberOfProject == year_out[1].projects[1].number

\* each extraction has produced its one record from the token
YearRecordsMade ==
  /\ Len(year_out[1].news) = 1
  /\ Len(year_out[1].people.phd_students) = 1
  /\ Len(year_out[1].scripts.phd_students) = 1
  /\ Len(year_out[1].projects) = 1

\* C5, as stated: every two-digit token Y becomes 2000+Y when Y < 50 and
\* 1900+Y otherwise, in news extraction, in people extraction (both copies)
\* and in project extraction.
C5_CenturyInferenceEverywhere ==
  year_out # None =>
    /\ YearRecordsMade
    /\ YearOfNews = InferredYear(TokenValue(year_token[1]))
    /\ YearOfPeople = InferredYear(TokenValue(year_token[1]))
    /\ YearOfScripts = InferredYear(TokenValue(year_token[1]))
    /\ NumberOfProject = InferredYear(TokenValue(year_token[1]))

\* C5, amended: every two-digit token Y becomes 2000+Y when Y < 50 and 1900+Y
\* otherwise, in news extraction and in both copies of people extraction;
\* project extraction infers no century: the number it reads is kept as it is.
C5_CenturyInferenceNewsAndPeople ==
  year_out # None =>
    /\ YearRecordsMade
    /\ YearOfNews = InferredYear(TokenValue(year_token[1]))
    /\ YearOfPeople = InferredYear(TokenValue(year_token[1]))
    /\ YearOfScripts = InferredYear(TokenValue(year_token[1]))
    /\ NumberOfProject = TokenValue(year_token[1])

\* the token "50", the first of the 1900s
C5_Witness ==
  /\ year_token = Some(<<"5", "0">>)
  /\ year_out # None
  /\ YearOfNews = 1950 /\ YearOfPeople = 1950 /\ YearOfScripts = 1950
  /\ NumberOfProject = 50

(***************************************************************************)
(* Properties of the member line in both copies of extract_people          *)
(* (specification SpecMember).                                             *)
(***************************************************************************)
\* the category that the header of the input selects
MemberCategory ==
  IF member_in[1].header = Elem("h3", T_h_phd) THEN "phd_students" ELSE "visiting"

\* the fields that the member line of the input is to yield
MemberExpected(member) ==
  /\ member.name_zh = member_in[1].zh
  /\ member.name_en = Join(member_in[1].en, <<" ">>)
  /\ member.year_start = InferredYear(TokenValue(member_in[1].yy))
  /\ member.department = member_in[1].dept
  /\ member.research = member_in[1].tags

\* the fields of the line "王小明 Wang Ming (21-LS) systems biology, genomics"
MemberOfExample(member) ==
  /\ member.name_zh = <<"U738B","U5C0F","U660E">>
  /\ member.name_en = <<"W","a","n","g"," ","M","i","n","g">>
  /\ member.year_start = 2021
  /\ member.department = <<"L","S">>
  /\ member.research = << <<"s","y","s","t","e","m","s"," ","b","i","o","l","o","g","y">>, <<"g","e","n","o","m","i","c","s">> >>

\* C8: under an active category, a member line '<CJK name> <Latin tokens>
\* (YY-DEPT) tag1, tag2' yields, in both copies of extract_people, one record
\* whose name_zh is the CJK name, name_en the Latin tokens joined by single
\* spaces, year_start the century-inferred YY, department DEPT, and research
\* the trimmed tags; the line "王小明 Wang Ming (21-LS) systems biology,
\* genomics" yields 王小明, Wang Ming, 2021, LS, [systems biology, genomics].
C8_MemberLineFields ==
  people_pc = "return" =>
    /\ Len(people[MemberCategory]) = 1
    /\ Len(scripts_st.people[MemberCategory]) = 1
    /\ MemberExpected(people[MemberCategory][1])
    /\ MemberExpected(scripts_st.people[MemberCategory][1])
    /\ people_seen[2].text = T_li_member
         => /\ MemberOfExample(people[MemberCategory][1])
            /\ MemberOfExample(scripts_st.people[MemberCategory][1])

\* both copies have parsed the example line under "PhD Students"
C8_Witness ==
  /\ people_pc = "return"
  /\ people_seen = <<Elem("h3", T_h_phd), Elem("li", T_li_member)>>
  /\ MemberOfExample(people.phd_students[1])
  /\ MemberOfExample(scripts_st.people.phd_students[1])

(***************************************************************************)
(* Further properties of extract_research_highlights (specification        *)
(* SpecHighlights).                                                        *)
(***************************************************************************)
\* the descriptions of the highlights emitted so far and of the open one
AllDescriptions ==
  { highlights[i].description : i \in 1..Len(highlights) }
    \cup (IF current_highlight = None THEN {} ELSE {current_highlight[1].description})

\* C11: while a highlight is open, a paragraph is appended to its description
\* exactly when its normalized text is longer than 50 characters (51 is kept,
\* 50 is not), appended last, the earlier strings staying as they are; and
\* every string of every description is longer than 50 characters.
C11_DescriptionKeepsLongParagraphs ==
  [][ /\ \A d \in AllDescriptions' : \A k \in 1..Len(d) : Len(d[k]) > 50
      /\ (hl_pc = "loop" /\ hl_pc' = "loop" /\ current_highlight # None
            /\ hl_seen'[Len(hl_seen')].name = "p")
           => LET para_text == clean_text(hl_seen'[Len(hl_seen')].text)
              IN  /\ current_highlight' # None
                  /\ current_highlight'[1].description =
                       current_highlight[1].description
                         \o (IF Len(para_text) > 50 THEN <<para_text>> ELSE <<>>) ]_vars

\* under the header "ATP synthase" the paragraph of 50 characters was left
\* out and the one of 51 characters kept
C11_Witness ==
  /\ hl_seen = <<Elem("h2", T_h_atp), Elem("p", T_p_50), Elem("p", T_p_51)>>
  /\ Len(T_p_50) = 50 /\ Len(T_p_51) = 51
  /\ current_highlight # None
  /\ current_highlight[1].description = <<T_p_51>>

(***************************************************************************)
(* Properties of extract_pi_info (specification SpecPI).                   *)
(***************************************************************************)
\* the places in the page of the img elements whose src holds "juan" or "pi"
\* in any letter case
PhotoCandidates ==
  { i \in 1..Len(pi_doc.elements) :
      /\ pi_doc.elements[i].name = "img"
      /\ \/ Contains(lower(pi_doc.elements[i].img[1]), S_juan)
         \/ Contains(lower(pi_doc.elements[i].img[1]), S_pi) }

\* C12: once extract_pi_info has looked for the photo in a page with a
\* content root, and until it returns, photo is the absolute URL of the first
\* img in document order whose src holds "juan" or "pi" in any letter case,
\* whatever matches follow it; when no img matches, photo is None.
C12_PhotoIsFirstMatchingImage ==
  (pi_pc \in {"bio", "loop", "return"} /\ pi_doc.root) =>
    IF PhotoCandidates = {} THEN pi.photo = None
    ELSE LET first == CHOOSE i \in PhotoCandidates : \A j \in PhotoCandidates : i <= j
         IN  /\ pi.photo = Some(make_absolute_url(pi_doc.elements[first].img[1]))
             /\ HasScheme(pi.photo[1])

\* extract_pi_info has returned on a page whose imgs are the logo, then PI.JPG,
\* then juan.jpg
C12_Witness ==
  /\ pi_pc = "return"
  /\ pi_doc = [root |-> TRUE,
               elements |-> <<Img(H_img_logo, <<>>), Img(H_img_PI, <<>>), Img(H_img_juan, <<>>)>>]
  /\ PhotoCandidates = {2, 3}
  /\ pi.photo = Some(<<"h","t","t","p","s",":","/","/","s","b","l",".","c","s","i","e",".","o","r","g">> \o H_img_PI)

PISections == {"education", "positions", "awards", "societies"}

\* None, or the section that the text of a header selects
SectionOfHeader(e) ==
  LET k == FirstKeyword(section_keywords, lower(clean_text(e.text)))
  IN  IF k = 0 THEN None ELSE Some(section_keywords[k][2])

\* None, or the section selected by the last matching header before place i
ActiveSectionAt(i) ==
  LET hs == { j \in 1..(i - 1) :
                /\ pi_doc.elements[j].name \in {"h2", "h3", "h4"}
                /\ SectionOfHeader(pi_doc.elements[j]) # None }
  IN  IF hs = {} THEN None
      ELSE SectionOfHeader(pi_doc.elements[CHOOSE j \in hs : \A h \in hs : h <= j])

\* the non-empty list items of the page that follow a header selecting
\* section s with no other matching header in between, in source order
ItemsOfSection(s) ==
  LET places == SelectSeq([i \in 1..Len(pi_doc.elements) |-> i],
                          LAMBDA i : /\ pi_doc.elements[i].name = "li"
                                     /\ clean_text(pi_doc.elements[i].text) # <<>>
                                     /\ ActiveSectionAt(i) = Some(s))
  IN  [k \in 1..Len(places) |-> clean_text(pi_doc.elements[places[k]].text)]

\* C16: when extract_pi_info returns from a page with a content root, each
\* section list holds, in source order, exactly the non-empty list items whose
\* most recent matching header selects that section: a header that matches
\* no keyword leaves the section as it is, and the items before the first
\* matching header are in no list.
C16_ItemsGoToMostRecentMatchingHeader ==
  (pi_pc = "return" /\ pi_doc.root) =>
    \A s \in PISections : pi[s] = ItemsOfSection(s)

\* extract_pi_info has returned on the page Education, Contact, a degree: the
\* degree is under education
C16_Witness ==
  /\ pi_pc = "return"
  /\ pi_doc = [root |-> TRUE,
               elements |-> <<Elem("h2", T_h_education), Elem("h4", T_h_other),
                              Elem("li", T_li_degree)>>]
  /\ pi.education = <<clean_text(T_li_degree)>>
  /\ pi.awards = <<>>

(***************************************************************************)
(* Properties of extract_research_projects (specification SpecProjects).   *)
(***************************************************************************)
\* the loop of extract_research_projects visits one more element
ProjectsVisits ==
  /\ projects_pc = "loop" /\ projects_pc' = "loop"
  /\ Len(projects_seen') = Len(projects_seen) + 1

\* the element that this step visits
ProjectsVisited == projects_seen'[Len(projects_seen')]

\* a header whose text holds "Research Project" or its Chinese form
HasProjectsMarker(e) ==
  /\ e.name \in {"h1", "h2", "h3"}
  /\ \/ Contains(clean_text(e.text), S_Research_Project)
     \/ Contains(clean_text(e.text), S_project_zh)

\* C13, as stated: the flag starts false; a header with the marker sets it;
\* once set, every h1 or h2 header clears it; an h3 header never clears it;
\* and an element visited while the flag is false adds no project.
C13_FlagClearedByAnyMajorHeader ==
  [][ /\ projects_seen = <<>> => ~in_projects_section
      /\ ProjectsVisits =>
           /\ (~in_projects_section /\ HasProjectsMarker(ProjectsVisited))
                => in_projects_section'
           /\ (in_projects_section /\ ProjectsVisited.name \in {"h1", "h2"})
                => ~in_projects_section'
           /\ (in_projects_section /\ ProjectsVisited.name = "h3")
                => in_projects_section'
           /\ (~in_projects_section \/ ~in_projects_section')
                => projects' = projects ]_vars

\* C13, amended: the flag starts false; a header with the marker sets it, or
\* leaves it set, whatever its level; once set, every h1 or h2 header without
\* the marker clears it; an h3 header never clears it and no other element
\* changes it; and an element visited while the flag is false adds no project.
C13_FlagClearedByMajorHeaderWithoutMarker ==
  [][ /\ projects_seen = <<>> => ~in_projects_section
      /\ ProjectsVisits =>
           /\ HasProjectsMarker(ProjectsVisited) => in_projects_section'
           /\ (in_projects_section /\ ProjectsVisited.name \in {"h1", "h2"}
                 /\ ~HasProjectsMarker(ProjectsVisited))
                => ~in_projects_section'
           /\ (in_projects_section /\ ProjectsVisited.name = "h3")
                => in_projects_section'
           /\ ~HasProjectsMarker(ProjectsVisited)
                => (in_projects_section' => in_projects_section)
           /\ ProjectsVisited.name \notin {"h1", "h2", "h3"}
                => in_projects_section' = in_projects_section
           /\ (~in_projects_section \/ ~in_projects_section')
                => projects' = projects ]_vars

\* the section is opened by an h2 with the marker, closed by an h1 without
\* it, and the numbered list item that follows adds no project
C13_Witness ==
  /\ projects_pc = "loop"
  /\ projects_seen = <<Elem("h2", T_h_projects), Elem("h1", T_h_other),
                       Elem("li", T_li_project)>>
  /\ project_pattern(clean_text(T_li_project)) # None
  /\ ~in_projects_section
  /\ projects = <<>>

\* C20: a project is added only by a li or p element visited inside the
\* project section; an h1, h2 or h3 header adds none, whatever its text.
C20_HeadersYieldNoProject ==
  [][ ProjectsVisits =>
        /\ projects' # projects
             => /\ ProjectsVisited.name \in {"li", "p"}
                /\ in_projects_section
        /\ ProjectsVisited.name \in {"h1", "h2", "h3"} => projects' = projects ]_vars

\* the h3 header "3. Deep learning" inside the project section has added the
\* project "project-3"
C20_HeaderYieldedProject ==
  /\ projects_seen = <<Elem("h2", T_h_projects), Elem("h3", T_h_numbered_h3)>>
  /\ Len(projects) = 1
  /\ projects[1].number = 3

(***************************************************************************)
(* Properties of fetch_page (specification SpecFetch).                     *)
(***************************************************************************)
\* the call that the log entry at place i belongs to
FetchCallOf(i) == CHOOSE c \in FetchCalls : c <= i /\ \A d \in FetchCalls : d <= i => d <= c

FetchRequests == { i \in 1..Len(fetch_log) : fetch_log[i].op = "request" }

FetchRequestsOf(c) == { i \in FetchRequests : FetchCallOf(i) = c }

FetchReturnsOf(c) ==
  { i \in 1..Len(fetch_log) : fetch_log[i].op = "return" /\ FetchCallOf(i) = c }

\* the seconds slept between the places i and j of the log
RECURSIVE FetchSlept(_, _)
FetchSlept(i, j) ==
  IF i + 1 >= j THEN 0
  ELSE (IF fetch_log[i + 1].op = "sleep" THEN fetch_log[i + 1].seconds ELSE 0)
         + FetchSlept(i + 1, j)

\* a call sends at most retries requests; it returns the document at the
\* first request that succeeds and sends no other; after the failed attempt
\* k it sleeps 2^k seconds if another attempt follows and does not sleep
\* otherwise; and after retries failures it returns None
C14_RetriesAndBackoff ==
  /\ \A c \in FetchCalls :
       /\ Cardinality(FetchRequestsOf(c)) <= fetch_log[c].retries
       /\ \A i \in FetchReturnsOf(c) :
            /\ i = Len(fetch_log) \/ fetch_log[i + 1].op = "call"
            /\ fetch_log[i].value = "document"
                 <=> \E r \in FetchRequestsOf(c) : fetch_log[r].ok
            /\ fetch_log[i].value = "None"
                 <=> /\ Cardinality(FetchRequestsOf(c)) = fetch_log[c].retries
                     /\ \A r \in FetchRequestsOf(c) : ~fetch_log[r].ok
       /\ (fetch_pc = "ready" \/ c # FetchCallOf(Len(fetch_log)))
            => Cardinality(FetchReturnsOf(c)) = 1
  /\ \A r \in FetchRequests :
       /\ fetch_log[r].ok
            => \A s \in FetchRequests : FetchCallOf(s) = FetchCallOf(r) => s <= r
       /\ ~fetch_log[r].ok =>
            IF fetch_log[r].attempt < fetch_log[FetchCallOf(r)].retries - 1
            THEN fetch_log[r + 1] = [op |-> "sleep", seconds |-> 2 ^ fetch_log[r].attempt]
            ELSE r = Len(fetch_log) \/ fetch_log[r + 1].op # "sleep"

\* between the last request of a call and the first request of the next
\* call, at least REQUEST_DELAY seconds are slept
C14_DelayBetweenCalls ==
  \A r, s \in FetchRequests :
    (r < s /\ FetchCallOf(r) # FetchCallOf(s)
       /\ \A t \in FetchRequests : ~(r < t /\ t < s))
      => FetchSlept(r, s) >= REQUEST_DELAY

\* C14: fetch_page sends at most retries requests, returns the document at
\* the first success and sends no further request, sleeps 2^k seconds after
\* the failed attempt k except after the last one, returns None after retries
\* failures, and the fixed delay REQUEST_DELAY lies between successive calls.
C14_FetchContract == C14_RetriesAndBackoff /\ C14_DelayBetweenCalls

\* a call with retries = 3 has failed three times, slept 1 and 2 seconds, and
\* returned None; the next call has sent its first request with no sleep in
\* between
C14_NoDelayAfterFailedCall ==
  /\ Len(fetch_log) >= 9
  /\ SubSeq(fetch_log, 1, 9) =
       << [op |-> "call", retries |-> 3],
          [op |-> "request", attempt |-> 0, ok |-> FALSE],
          [op |-> "sleep", seconds |-> 1],
          [op |-> "request", attempt |-> 1, ok |-> FALSE],
          [op |-> "sleep", seconds |-> 2],
          [op |-> "request", attempt |-> 2, ok |-> FALSE],
          [op |-> "return", value |-> "None"],
          [op |-> "call", retries |-> 3],
          [op |-> "request", attempt |-> 0, ok |-> TRUE] >>

(***************************************************************************)
(* Properties of the image downloader (specification SpecDownload).        *)
(***************************************************************************)
\* the loop of main handles the entry at dl_i in this step
DownloadHandles ==
  /\ DownloadAtEntry
  /\ Len(dl_log') = Len(dl_log) + 1

\* what this step has recorded for the entry
DownloadHandled == dl_log'[Len(dl_log')]

\* C15: the downloader handles every manifest entry without raising: an
\* entry whose destination exists is skipped with no request and no file
\* written; for every other entry download_image returns True or False
\* whatever the request, the content type, the writing of the file and the
\* making of the WebP copy do; and a response that is not an image writes no
\* file and gives False.
C15_DownloaderNeverRaises ==
  [][ /\ dl_pc' # "raised"
      /\ DownloadHandles =>
           /\ output_path \in dl_files
                => /\ DownloadHandled.result = "skipped"
                   /\ DownloadHandled.request = "none"
                   /\ dl_files' = dl_files
           /\ output_path \notin dl_files
                => /\ DownloadHandled.result \in {"True", "False"}
                   /\ DownloadHandled.request # "none"
           /\ DownloadHandled.request = "not image"
                => /\ DownloadHandled.result = "False"
                   /\ dl_files' = dl_files ]_vars

\* what holds of the downloader when no write fails: the same, for the steps
\* other than DownloadWriteFails
C15_DownloaderOutcomes ==
  [][ (DownloadHandles /\ dl_pc' # "raised") =>
           /\ output_path \in dl_files
                => /\ DownloadHandled.result = "skipped"
                   /\ DownloadHandled.request = "none"
                   /\ dl_files' = dl_files
           /\ output_path \notin dl_files
                => /\ DownloadHandled.result \in {"True", "False"}
                   /\ DownloadHandled.request # "none"
           /\ DownloadHandled.request = "not image"
                => /\ DownloadHandled.result = "False"
                   /\ dl_files' = dl_files ]_vars

\* the first entry was downloaded; at the second the file could not be
\* written, and the OSError has ended the run
C15_RunEndedByOSError ==
  /\ dl_pc = "raised"
  /\ Len(dl_manifest[1]) = 2
  /\ Len(dl_log) = 2
  /\ dl_log[1].result = "True"
  /\ dl_log[2] = [entry |-> 2, request |-> "image", result |-> "OSError"]

(***************************************************************************)
(* Properties of the fallback of extract_people (specification SpecBare).  *)
(***************************************************************************)
\* the normalized text of the element
BareText == clean_text(bare_in[1].text)

\* the record that C17 describes for the element
BareRecord ==
  [ name_zh    |-> IF HasCJK(BareText) THEN BareText ELSE <<>>,
    name_en    |-> IF HasCJK(BareText) THEN <<>> ELSE BareText,
    year_start |-> 2024,
    department |-> <<>>,
    research   |-> <<>>,
    email      |-> None,
    photo      |-> IF bare_in[1].img = None THEN None
                   ELSE Some(make_absolute_url(bare_in[1].img[1])) ]

\* C17: when extract_people has handled a li, p or tr under an active
\* category whose text member_pattern does not match, then, if the text has
\* 2 to 49 characters, exactly one record has been appended, to the current
\* category: the whole text as name_zh if it holds a CJK character and as
\* name_en otherwise, the other name empty, year_start 2024, department and
\* research empty, email None, and the photo the element's image if it has
\* one; if the text has fewer than 2 or at least 50 characters nothing has
\* been appended.
C17_BareRecordForShortText ==
  (bare_in # None /\ people_pc = "return" /\ current_category # None
     /\ member_pattern(BareText) = None) =>
    IF Len(BareText) >= 2 /\ Len(BareText) <= 49
    THEN people = [EmptyPeople EXCEPT ![current_category[1]] = <<BareRecord>>]
    ELSE people = EmptyPeople

\* a tr of 49 characters with an image, under "PhD Students", has given a
\* bare record with photo
C17_Witness ==
  /\ bare_in # None /\ people_pc = "return"
  /\ bare_in[1].header = Elem("h3", T_h_phd)
  /\ bare_in[1].name = "tr" /\ bare_in[1].text = T_bare_49 /\ bare_in[1].img = Some(H_photo)
  /\ Len(BareText) = 49 /\ member_pattern(BareText) = None
  /\ Len(people.phd_students) = 1
  /\ people.phd_students[1].name_en = T_bare_49
  /\ people.phd_students[1].photo # None

(***************************************************************************)
(* Properties of extract_image_urls (specification SpecImages).            *)
(***************************************************************************)
\* the parameters of the query string of a url: what follows the first "?",
\* split at "&"
QueryParameters(url) ==
  LET q == Find(url, <<"?">>)
  IN  IF q = 0 THEN <<>> ELSE SplitOn(From(url, q + 1), "&")

\* None, or the value of the first parameter named media
MediaParameter(url) ==
  LET IsMedia(p) == startswith(p, S_media)
      ps == Filter(IsMedia, QueryParameters(url))
  IN  IF ps = <<>> THEN None ELSE Some(From(ps[1], Len(S_media) + 1))

\* the last segment of the path of a url, the query string left out
LastPathSegment(url) == AfterLast(SplitOn(url, "?")[1], <<"/">>)

\* the img elements that extract_image_urls takes
ImagesTaken ==
  LET Wanted(e) == image_wanted(e.img[1])
  IN  Filter(Wanted, find_all(images_soup.elements, {"img"}))

\* C18: every reference that extract_image_urls returns has as filename the
\* URL-decoded value of the media parameter of the query string of its url
\* when the url has one, and otherwise the URL-decoded last path segment of
\* the url without the query string; its alt is the alt text of the img.
C18_FilenameFromMediaOrPath ==
  images_pc = "return" =>
    /\ Len(images_out) = Len(ImagesTaken)
    /\ \A k \in 1..Len(images_out) :
         /\ images_out[k].filename =
              IF MediaParameter(images_out[k].url) # None
              THEN unquote(MediaParameter(images_out[k].url)[1])
              ELSE unquote(LastPathSegment(images_out[k].url))
         /\ images_out[k].alt = ImagesTaken[k].alt

\* the img with src "/lib/exe/fetch.php?media=lab.png&w=100" has been given
\* the filename "lab.png&w=100"
C18_FilenameHoldsNextParameter ==
  /\ images_pc = "return"
  /\ images_soup.elements = <<Img(H_img_lab_w, A_lab)>>
  /\ images_out[1].filename = <<"l","a","b",".","p","n","g","&","w","=","1","0","0">>

(***************************************************************************)
(* Properties of the loops that keep a section or category (specification  *)
(* SpecStateful).                                                          *)
(***************************************************************************)
\* Of a loop that visited the elements visited and went through the local
\* states trace: the state is unset at first; an element that is no header
\* leaves the state as it is and, while the state is unset, leaves the
\* output as it is; and as long as the state has never been set the output
\* is the empty one.  State(s) is the section or category of the local
\* state s, Unset(s) says that it is unset, Output(s) is what has been
\* emitted.
DiscardsUntilHeader(trace, visited, headers, State(_), Unset(_), Output(_), empty) ==
  trace # <<>> =>
    /\ Len(trace) = Len(visited) + 1
    /\ Unset(trace[1])
    /\ Output(trace[1]) = empty
    /\ \A k \in 1..Len(visited) :
         /\ visited[k].name \notin headers
              => /\ State(trace[k + 1]) = State(trace[k])
                 /\ Unset(trace[k]) => Output(trace[k + 1]) = Output(trace[k])
         /\ (\A j \in 1..(k + 1) : Unset(trace[j]))
              => Output(trace[k + 1]) = empty

\* what DiscardsUntilHeader says of the loops of extract_people,
\* extract_research_highlights and extract_research_projects
DiscardsInPeopleHighlightsProjects ==
  /\ DiscardsUntilHeader(traces.people, PeopleVisited, HeaderNames4,
       LAMBDA s : <<s.current_category, s.is_alumni_section>>,
       LAMBDA s : s.current_category = None,
       LAMBDA s : s.people, EmptyPeople)
  /\ DiscardsUntilHeader(traces.highlights, HighlightsVisited, HeaderNames3,
       LAMBDA s : IF s.current_highlight = None THEN None
                  ELSE Some(s.current_highlight[1].id),
       LAMBDA s : s.current_highlight = None,
       LAMBDA s : s, HighlightsStart)
  /\ DiscardsUntilHeader(traces.projects, ProjectsLoopVisited, HeaderNames3,
       LAMBDA s : s.in_projects_section,
       LAMBDA s : ~s.in_projects_section,
       LAMBDA s : s.projects, <<>>)

\* the four lists of the profile that the section loop fills
PISectionLists(profile) ==
  [ section \in {"education", "positions", "awards", "societies"} |-> profile[section] ]

\* C19, as stated: in extract_people, extract_research_highlights,
\* extract_research_projects and extract_pi_info, the category, open
\* highlight, project flag or section is unset at first and is changed by
\* header elements only; an element that is no header and is visited while it
\* is unset is discarded; and nothing has been emitted, no record,
\* description paragraph, image or list entry, as long as no header has set
\* it: the output is still the empty one, for extract_pi_info the default
\* profile.
C19_DiscardedUntilFirstHeader ==
  /\ DiscardsInPeopleHighlightsProjects
  /\ DiscardsUntilHeader(traces.pi, PIVisited, {"h2", "h3", "h4"},
       LAMBDA s : s.current_section,
       LAMBDA s : s.current_section = None,
       LAMBDA s : s.pi, DefaultPI)

\* C19, amended: the same of extract_people, extract_research_highlights and
\* extract_research_projects, and of the section lists (education, positions,
\* awards, societies) of extract_pi_info; the photo and the bio of
\* extract_pi_info are outside it, being taken from the img and p elements
\* of the whole page before the section loop starts.
C19_DiscardedUntilFirstHeaderButPhotoAndBio ==
  /\ DiscardsInPeopleHighlightsProjects
  /\ DiscardsUntilHeader(traces.pi, PIVisited, {"h2", "h3", "h4"},
       LAMBDA s : s.current_section,
       LAMBDA s : s.current_section = None,
       LAMBDA s : PISectionLists(s.pi), PISectionLists(DefaultPI))

\* the four loops have run on a long paragraph, the header "ATP synthase" and
\* the same paragraph again: the highlight holds the paragraph once, no
\* section list of the profile holds anything, and the bio of the profile
\* holds the paragraph twice
C19_Witness ==
  /\ stateful_soup.elements = <<Elem("p", T_p_bio), Elem("h2", T_h_atp), Elem("p", T_p_bio)>>
  /\ \A x \in {"people", "highlights", "projects", "pi"} : traces[x] # <<>>
  /\ traces.highlights[2] = HighlightsStart
  /\ traces.highlights[4].current_highlight[1].description = <<T_p_bio>>
  /\ PISectionLists(traces.pi[1].pi) = PISectionLists(DefaultPI)
  /\ traces.pi[1].pi.bio = T_p_bio \o <<"\n", "\n">> \o T_p_bio

(***************************************************************************)
(* Properties of the titles and ids of the projects (specification         *)
(* SpecProjects).                                                          *)
(***************************************************************************)
\* this step of the loop appends one project
ProjectsAppends ==
  /\ ProjectsVisits
  /\ Len(projects') = Len(projects) + 1

\* the project that this step appends
ProjectAppended == projects'[Len(projects')]

\* the non-empty cleaned parts of a raw text, split at its newlines
NonEmptyParts(raw) ==
  LET NotEmpty(part) == part # <<>>
      parts == SplitOn(strip(raw), "\n")
  IN  SelectSeq([k \in 1..Len(parts) |-> clean_text(parts[k])], NotEmpty)

\* the last part of parts that has (zh) or has not (~zh) a CJK character,
\* the empty string when there is none
LastPartOf(parts, zh) ==
  LET hits == { k \in 1..Len(parts) : HasCJK(parts[k]) = zh }
  IN  IF hits = {} THEN <<>>
      ELSE parts[CHOOSE k \in hits : \A j \in hits : j <= k]

\* a raw text of the shape "N. <Chinese title>" newline "<English title>"
IsZhThenEn(raw) ==
  LET parts == NonEmptyParts(raw)
  IN  /\ Len(parts) = 2
      /\ project_pattern(parts[1]) # None
      /\ HasCJK(project_pattern(parts[1])[1][2])
      /\ ~HasCJK(parts[2])

\* C21: the titles of a project appended for a text of several lines are
\* those of its non-empty parts, each classified alone (a part with a CJK
\* character is title_zh, a part without one is title_en), so a text
\* "N. <Chinese title>" newline "<English title>" gives both titles; a text
\* of one line gives exactly one of the titles, the text after the number,
\* title_zh when it holds a CJK character and title_en otherwise.
C21_TitlesFromPartsOrWholeLine ==
  [][ ProjectsAppends =>
        LET raw   == ProjectsVisited.text
            p     == ProjectAppended
            title == project_pattern(clean_text(raw))[1][2]
        IN  IF Contains(raw, <<"\n">>)
            THEN /\ p.title_zh = LastPartOf(NonEmptyParts(raw), TRUE)
                 /\ p.title_en = LastPartOf(NonEmptyParts(raw), FALSE)
                 /\ IsZhThenEn(raw) => p.title_zh # <<>> /\ p.title_en # <<>>
            ELSE /\ (p.title_zh = <<>>) # (p.title_en = <<>>)
                 /\ p.title_zh = IF HasCJK(title) THEN title ELSE <<>>
                 /\ p.title_en = IF HasCJK(title) THEN <<>> ELSE title ]_vars

\* the list item "1. <Chinese title>" newline "<English title>" inside the
\* project section has given a project without a Chinese title
C21_ChineseTitleLost ==
  /\ projects_seen = <<Elem("h2", T_h_projects), Elem("li", T_li_zh_en)>>
  /\ Len(projects) = 1
  /\ projects[1].title_zh = <<>>
  /\ projects[1].title_en = <<"P","r","o","t","e","o","m","i","c","s">>

\* what holds of the titles: the parts that start with a digit are left
\* out, and the others are classified each alone; a text of one line gives
\* exactly one title
C21_TitlesFromPartsNotStartingWithDigit ==
  [][ ProjectsAppends =>
        LET raw   == ProjectsVisited.text
            p     == ProjectAppended
            title == project_pattern(clean_text(raw))[1][2]
            NoDigit(part) == ~IsDigit(part[1])
            parts == SelectSeq(NonEmptyParts(raw), NoDigit)
        IN  IF Contains(raw, <<"\n">>)
            THEN /\ p.title_zh = LastPartOf(parts, TRUE)
                 /\ p.title_en = LastPartOf(parts, FALSE)
            ELSE /\ (p.title_zh = <<>>) # (p.title_en = <<>>)
                 /\ p.title_zh = IF HasCJK(title) THEN title ELSE <<>>
                 /\ p.title_en = IF HasCJK(title) THEN <<>> ELSE title ]_vars

\* C28: the id of every project appended is "project-" followed by the
\* decimal rendering of its number, whatever the digits of its marker
\* (a marker with leading zeros included).
C28_IdIsProjectDashNumber ==
  [][ ProjectsAppends =>
        ProjectAppended.id = S_project_dash \o str(ProjectAppended.number) ]_vars

\* the list item "01. Proteomics" inside the project section has given the
\* project of number 1 whose id is "project-01"
C28_LeadingZeroKeptInId ==
  /\ projects_seen = <<Elem("h2", T_h_projects), Elem("li", T_li_leading_0)>>
  /\ Len(projects) = 1
  /\ projects[1].number = 1
  /\ projects[1].id = <<"p","r","o","j","e","c","t","-","0","1">>

\* what holds of the id and the number: the id is "project-" followed by
\* the digits of the marker as written, the number is their integer value
C28_IdKeepsDigitsOfMarker ==
  [][ ProjectsAppends =>
        LET digits == project_pattern(clean_text(ProjectsVisited.text))[1][1]
        IN  /\ ProjectAppended.id = S_project_dash \o digits
            /\ ProjectAppended.number = int(digits) ]_vars

\* a header that switches the category to alumni: its text holds "alumni",
\* or the first keyword of the table that it holds is mapped to alumni
IsAlumniMarkerHeader(element) ==
  /\ element.name \in HeaderNames4
  /\ \/ Contains(HeaderLower(element), S_alumni)
     \/ /\ FirstKeyword(category_keywords, HeaderLower(element)) # 0
        /\ category_keywords[FirstKeyword(category_keywords, HeaderLower(element))][2]
             = "alumni"

\* a header without "alumni" whose first keyword is that of a standard role
IsStandardRoleHeader(element) ==
  /\ element.name \in HeaderNames4
  /\ ~Contains(HeaderLower(element), S_alumni)
  /\ FirstKeyword(category_keywords, HeaderLower(element)) # 0
  /\ category_keywords[FirstKeyword(category_keywords, HeaderLower(element))][2]
       \in StandardRoles

\* the loop of extract_people visits one more element
PeopleVisits ==
  /\ people_pc = "loop" /\ people_pc' = "loop"
  /\ Len(people_seen') = Len(people_seen) + 1

\* the element that this step visits
PeopleVisitedNow == people_seen'[Len(people_seen')]

\* C22: once a header that switches the category to alumni has been seen
\* (by "alumni", by the Chinese keyword or by "former"), every header of a
\* standard role (phd, masters, undergrad, postdoc) visited afterwards sets
\* the category to alumni.
C22_AnyAlumniMarkerRemapsRoles ==
  [][ ( /\ PeopleVisits
        /\ \E i \in 1..Len(people_seen) : IsAlumniMarkerHeader(people_seen[i])
        /\ IsStandardRoleHeader(PeopleVisitedNow) )
        => current_category' = Some("alumni") ]_vars

\* after the header of the Chinese alumni keyword and the header "PhD
\* Students", the member line has been filed under phd_students
C22_PhDAfterChineseAlumniHeader ==
  /\ people_seen = <<Elem("h2", T_h_former), Elem("h3", T_h_phd), Elem("li", T_li_member)>>
  /\ current_category = Some("phd_students")
  /\ ~is_alumni_section
  /\ Len(people.phd_students) = 1
  /\ people.alumni = <<>>

\* what holds: a header of a standard role sets the category to alumni
\* exactly when a header holding "alumni" has been seen before it, and to
\* its own category otherwise
C22_OnlyAlumniWordRemapsRoles ==
  [][ (PeopleVisits /\ IsStandardRoleHeader(PeopleVisitedNow))
        => LET own == category_keywords[FirstKeyword(category_keywords,
                        HeaderLower(PeopleVisitedNow))][2]
           IN  current_category' =
                 IF \E i \in 1..Len(people_seen) : IsHeaderWith(people_seen[i], S_alumni)
                 THEN Some("alumni") ELSE Some(own) ]_vars

\* a header holding "alumni" is among the elements
AlumniHeaderIn(seen) == \E i \in 1..Len(seen) : IsHeaderWith(seen[i], S_alumni)

\* C26: the alumni flag is set by a header holding "alumni" and is never
\* cleared afterwards; from then on the category is alumni or visiting, and
\* no element, whatever headers follow, adds a person to phd_students,
\* masters_students, undergrads or postdocs.
C26_AlumniFlagMonotone ==
  [][ /\ is_alumni_section => is_alumni_section'
      /\ (PeopleVisits /\ IsHeaderWith(PeopleVisitedNow, S_alumni))
           => is_alumni_section'
      /\ (PeopleVisits /\ AlumniHeaderIn(people_seen))
           => /\ is_alumni_section
              /\ current_category \in {Some("alumni"), Some("visiting")}
              /\ current_category' \in {Some("alumni"), Some("visiting")}
              /\ \A c \in StandardRoles : people'[c] = people[c] ]_vars

\* after the headers "Alumni", "Visiting Scholars" and "Postdocs" the flag
\* is still set and the member line has been filed under alumni
C26_Witness ==
  /\ people_seen = <<Elem("h2", T_h_alumni), Elem("h2", T_h_visiting),
                     Elem("h3", T_h_postdoc), Elem("li", T_li_member)>>
  /\ is_alumni_section
  /\ Len(people.alumni) = 1
  /\ people.postdocs = <<>>
  /\ people.visiting = <<>>

(***************************************************************************)
(* Properties of the category that a header selects (specification         *)
(* SpecKeyword).                                                           *)
(***************************************************************************)
S_postdoc == <<"p","o","s","t","d","o","c">>

\* the lower-cased text of the header of SpecKeyword
KeywordTextLower == lower(clean_text(header_in[1].text))

\* C24: with no alumni header before it, a header whose lower-cased text is
\* exactly a keyword of category_keywords selects, in both copies, the
\* category that the table maps this keyword to; a header holding "postdoc"
\* selects postdocs (so each of the six categories is selected by each of
\* its own keywords).
C24_KeywordSelectsItsCategory ==
  (header_in # None /\ people_pc = "return")
    => /\ \A k \in 1..Len(category_keywords) :
            KeywordTextLower = category_keywords[k][1]
              => /\ current_category = Some(category_keywords[k][2])
                 /\ scripts_st.current_category = Some(category_keywords[k][2])
       /\ Contains(KeywordTextLower, S_postdoc)
            => /\ current_category = Some("postdocs")
               /\ scripts_st.current_category = Some("postdocs")

\* the header whose text is the Chinese keyword of postdocs has selected
\* phd_students in both copies
C24_PostdocKeywordSelectsPhD ==
  /\ header_in # None
  /\ people_pc = "return"
  /\ header_in[1].text = category_keywords[18][1]
  /\ category_keywords[18][2] = "postdocs"
  /\ current_category = Some("phd_students")
  /\ scripts_st.current_category = Some("phd_students")

\* what holds: a header selects the category of the first keyword, in the
\* order of the table, that its lower-cased text holds, and none when it
\* holds no keyword
C24_FirstKeywordInTableOrderWins ==
  (header_in # None /\ people_pc = "return")
    => LET k == FirstKeyword(category_keywords, KeywordTextLower)
           selected == IF k = 0 THEN None ELSE Some(category_keywords[k][2])
       IN  /\ current_category = selected
           /\ scripts_st.current_category = selected

(***************************************************************************)
(* Properties of the urls recorded for one img (specification              *)
(* SpecResolve).                                                           *)
(***************************************************************************)
\* the photo that extract_people recorded for the member of the page
ResolvedPhoto == resolve_out[1].people.phd_students[1].photo[1]

\* the url that extract_image_urls recorded for the img of the page
ResolvedManifestUrl == resolve_out[1].manifest[1].url

\* both extractors have recorded the img, and its src is relative
RelativeImgRecorded ==
  /\ resolve_out # None
  /\ ~startswith(resolve_src[1], S_http)
  /\ Len(resolve_out[1].manifest) = 1
  /\ Len(resolve_out[1].people.phd_students) = 1
  /\ resolve_out[1].people.phd_students[1].photo # None

\* C23: for a relative src, with or without a leading "/", the url of the
\* manifest equals the url of the photo field, and both start with the base
\* url https://sbl.csie.org/JuanLab.
C23_RelativeSrcResolvedAlike ==
  RelativeImgRecorded
    => /\ ResolvedManifestUrl = ResolvedPhoto
       /\ startswith(ResolvedManifestUrl, BASE_URL)
       /\ startswith(ResolvedPhoto, BASE_URL)

\* the img of src "_media/wang.jpg" is in the manifest with a url outside
\* the base url and is the photo of the member with a url under it
C23_ManifestUrlDiffersFromPhoto ==
  /\ RelativeImgRecorded
  /\ resolve_src[1] = <<"_","m","e","d","i","a","/","w","a","n","g",".","j","p","g">>
  /\ ResolvedManifestUrl = <<"h","t","t","p","s",":","/","/","s","b","l",".","c","s","i","e",".","o","r","g","/","_","m","e","d","i","a","/","w","a","n","g",".","j","p","g">>
  /\ ResolvedPhoto = <<"h","t","t","p","s",":","/","/","s","b","l",".","c","s","i","e",".","o","r","g","/","J","u","a","n","L","a","b","/","_","m","e","d","i","a","/","w","a","n","g",".","j","p","g">>

\* what holds: a src with a leading "/" is resolved by both against the
\* host, outside the base url; a src without one is resolved against the
\* host in the manifest and against the base url in the photo field
C23_ResolvedAgainstHostOrBase ==
  RelativeImgRecorded
    => LET host == <<"h","t","t","p","s",":","/","/","s","b","l",".","c","s","i","e",".","o","r","g">>
       IN  IF resolve_src[1][1] = "/"
           THEN /\ ResolvedManifestUrl = host \o resolve_src[1]
                /\ ResolvedPhoto = host \o resolve_src[1]
           ELSE /\ ResolvedManifestUrl = host \o <<"/">> \o resolve_src[1]
                /\ ResolvedPhoto = BASE_URL \o <<"/">> \o resolve_src[1]

\* C25: an entry is skipped only when its destination existed before main
\* began, never because of a file written earlier in the run for another
\* entry: the entries of a manifest of distinct urls have distinct
\* destinations.
C25_SkippedOnlyIfExistedBefore ==
  [][ /\ (DownloadHandles /\ DownloadHandled.result = "skipped")
           => output_path \in dl_before
      /\ dl_manifest # None
           => \A i, j \in 1..Len(dl_manifest[1]) :
                OutputPaths[dl_manifest[1][i], i] = OutputPaths[dl_manifest[1][j], j]
                  => i = j ]_vars

\* the manifest holds the urls of "group:lab.png" and of "group_lab.png",
\* no file existed when main began, the first entry was downloaded and the
\* second was skipped
C25_SkippedFileWrittenInRun ==
  /\ dl_manifest = Some(<< image_reference(Img(H_img_group_lab, <<>>)),
                           image_reference(Img(H_img_group_lab_, <<>>)) >>)
  /\ dl_before = {}
  /\ Len(dl_log) = 2
  /\ dl_log[1].result = "True"
  /\ dl_log[2].result = "skipped"
  /\ dl_stats = [downloaded |-> 1, skipped |-> 1, failed |-> 0]

\* the manifest holds the urls of "lab.png" and of "lab.webp", whose
\* destinations differ; no file existed when main began, the first entry
\* was downloaded with its WebP copy and the second was skipped
C25_SkippedForWebPCopy ==
  /\ dl_manifest = Some(<< image_reference(Img(H_img_lab, <<>>)),
                           image_reference(Img(H_img_lab_webp, <<>>)) >>)
  /\ OutputPaths[dl_manifest[1][1], 1] # OutputPaths[dl_manifest[1][2], 2]
  /\ dl_before = {}
  /\ Len(dl_log) = 2
  /\ dl_log[1].result = "True"
  /\ dl_log[2].result = "skipped"

(***************************************************************************)
(* Properties of the order of the news (specification SpecNews).           *)
(***************************************************************************)
\* the items of the matching list items, in the order of the document
NewsMatched == news_loop(<<>>, news_lis)

\* two items of the same year and month
SameYearMonth(x, y) == x.year = y.year /\ x.month = y.month

\* C27: the list returned by extract_news is a permutation of the items of
\* the matching list items, none dropped and none duplicated, in which any
\* two items of the same year and month keep the order they have in the
\* document.
C27_NewsSortKeepsSourceOrder ==
  news_pc = "return" =>
    LET n == Len(NewsMatched)
    IN  /\ Len(news_items) = n
        /\ \E place \in Permutations(1..n) :
             /\ \A i \in 1..n : news_items[place[i]] = NewsMatched[i]
             /\ \A i, j \in 1..n :
                  (i < j /\ SameYearMonth(NewsMatched[i], NewsMatched[j]))
                    => place[i] < place[j]

\* extract_news has returned on the source order "23.12 C", "24.03 E",
\* "24.03 A": E and A, of the same year and month, come out in that order
C27_Witness ==
  /\ news_pc = "return"
  /\ news_lis = <<Elem("li", T_news_C), ElemA("li", T_news_E, <<Some(H_paper)>>),
                  Elem("li", T_news_A)>>
  /\ NewsTitles = << <<"E">>, <<"A">>, <<"C">> >>

(***************************************************************************)
(* Properties of the two copies of extract_people side by side             *)
(* (specification SpecCopies).                                             *)
(***************************************************************************)
\* the list items visited under a category: those that follow a header
\* holding a keyword of category_keywords
LinesUnderCategory ==
  { i \in 1..Len(people_seen) :
      /\ people_seen[i].name = "li"
      /\ \E j \in 1..(i - 1) :
           /\ people_seen[j].name \in HeaderNames4
           /\ FirstKeyword(category_keywords, HeaderLower(people_seen[j])) # 0 }

\* the number of records of a roster
RosterSize(roster) ==
  Len(roster.phd_students) + Len(roster.masters_students) + Len(roster.undergrads)
    + Len(roster.visiting) + Len(roster.alumni) + Len(roster.postdocs)

\* C29: on headers without "alumni" and list items that match the member
\* pattern of src/scripts, the copy of src/juanlab-astro has the category of
\* the copy of src/scripts and has filed, for every list item under a
\* category, a record with the same name_zh, name_en, year_start,
\* department, research, photo and email in the same list.
C29_CopiesAgreeOnMemberEntries ==
  ( /\ people_pc \in {"loop", "return"}
    /\ \A i \in 1..Len(people_seen) :
         \/ /\ people_seen[i].name \in HeaderNames4
            /\ ~Contains(HeaderLower(people_seen[i]), S_alumni)
         \/ /\ people_seen[i].name = "li"
            /\ scripts_member_pattern(clean_text(people_seen[i].text)) # None )
    => /\ current_category = scripts_st.current_category
       /\ people = scripts_st.people
       /\ RosterSize(people) = Cardinality(LinesUnderCategory)

\* after the header of the Chinese alumni keyword and the header "Visiting
\* Scholars", both copies have filed "Tom(50B_21)genomics" under visiting
\* with year_start 1950 and department "B_21"
C29_Witness ==
  /\ people_pc = "return"
  /\ people_seen = <<Elem("h2", T_h_former), Elem("h2", T_h_visiting),
                     Elem("li", T_li_dept_)>>
  /\ Len(people.visiting) = 1
  /\ people.visiting[1].year_start = 1950
  /\ people.visiting[1].department = <<"B","_","2","1">>
  /\ scripts_st.people.visiting = people.visiting
  /\ people.alumni = <<>>

====
